---- MODULE Spec2Model ----
\* A model of the 1t terminal core: the TerminalWidget screen model
\* (src/src/terminalwidget.cpp, terminalwidget.h) and the EscapeSequenceParser
\* byte decoder (src/src/escapeparser.cpp).
\*
\* Bytes and characters are integers (their code), a ScreenBuffer is its row-major
\* std::vector<Cell> with 1-based positions, and every member function of the two
\* classes is an operator from the object's state (a record) to its next state.
EXTENDS Integers, Sequences, FiniteSets, TLC

\* ------------------------------------------------------------------ bounds
\* The constructor builds 24x80 buffers and a scrollback of 1000 rows; the
\* model runs the same code on a small grid with a short scrollback.
InitRows == 3
InitCols == 2
ScrollbackMax == 2
\* Number of sequences the child has written before the one that is observed.
MaxHistory == 2

\* ------------------------------------------------------- bytes of the wire
ESC == 27
BEL == 7
BS == 8
HT == 9
LF == 10
CR == 13
DEL == 127

\* TextStyle bits
Bold == 1
Underline == 2
Inverse == 4

\* ------------------------------------------------------------------ cells
\* Cell value-initialised by std::vector<Cell>::resize: QChar() and zeroed ints.
NulCell == [ch |-> 0, fg |-> 0, bg |-> 0, style |-> 0]

Min(a, b) == IF a < b THEN a ELSE b
Max(a, b) == IF a > b THEN a ELSE b
\* std::clamp(v, lo, hi)
Clamp(v, lo, hi) == IF v < lo THEN lo ELSE IF hi < v THEN hi ELSE v

\* ------------------------------------------------------------ ScreenBuffer
\* ScreenBuffer(rows, cols): m_cells.resize(rows * cols)
NewScreenBuffer(rows, cols) ==
    [rows |-> rows, cols |-> cols, cells |-> [i \in 1..(rows * cols) |-> NulCell]]

\* ScreenBuffer::resize: the vector keeps its first elements in place (row-major,
\* not re-laid-out) and value-initialises the elements it appends.
BufResize(buf, rows, cols) ==
    [rows |-> rows, cols |-> cols,
     cells |-> [i \in 1..(rows * cols) |->
                   IF i <= Len(buf.cells) THEN buf.cells[i] ELSE NulCell]]

\* ScreenBuffer::cell(row, col): position of the element in m_cells.
CellIndex(buf, row, col) == row * buf.cols + col + 1

\* operator[] is defined only inside the vector.
InVector(buf, i) == i >= 1 /\ i <= Len(buf.cells)

\* ScreenBuffer::fillRow(row, startCol, endCol, fillCell)
BufFillRow(buf, row, startCol, endCol, fillCell) ==
    LET s == IF startCol < 0 THEN 0 ELSE startCol
        e == IF endCol > buf.cols THEN buf.cols ELSE endCol
    IN IF row < 0 \/ row >= buf.rows THEN buf
       ELSE [buf EXCEPT !.cells =
                [i \in 1..Len(buf.cells) |->
                    IF i >= CellIndex(buf, row, s) /\ i < CellIndex(buf, row, e)
                    THEN fillCell ELSE buf.cells[i]]]

\* --------------------------------------------------------- TerminalWidget
\* The constructor. m_scrollRegionBottom is rows - 1 of the buffers it builds.
\* oob: the last handler wrote a Cell outside m_cells (undefined behaviour);
\* dangling: the last handler read a QStringView whose QString was destroyed;
\* pushed: every row handed to m_scrollbackBuffer.push_back since the scrollback
\* was last cleared (history, read by no operation); updates: the calls of
\* updateScreen() during the last feed(); settled: the decoder had no pending
\* text at each of them.
NewWidget ==
    [mainScreen |-> NewScreenBuffer(InitRows, InitCols),
     alternateScreen |-> NewScreenBuffer(InitRows, InitCols),
     scrollbackBuffer |-> << >>,
     inAlternateScreen |-> FALSE,
     mouseEnabled |-> TRUE,
     cursorRow |-> 0, cursorCol |-> 0,
     savedCursorRow |-> 0, savedCursorCol |-> 0,
     currentFg |-> 7, currentBg |-> 0, currentStyle |-> 0,
     scrollRegionTop |-> 0, scrollRegionBottom |-> InitRows - 1,
     title |-> << >>,
     oob |-> FALSE, dangling |-> FALSE, overflow |-> FALSE,
     pushed |-> << >>,
     updates |-> 0, settled |-> TRUE]

currentBuffer(w) == IF w.inAlternateScreen THEN w.alternateScreen ELSE w.mainScreen

\* a store that always goes to the primary buffer
SetMainScreen(w, buf) == [w EXCEPT !.mainScreen = buf]

SetCurrentBuffer(w, buf) ==
    IF w.inAlternateScreen THEN [w EXCEPT !.alternateScreen = buf]
    ELSE [w EXCEPT !.mainScreen = buf]

makeCellForCurrentAttr(w) ==
    [ch |-> 32, fg |-> w.currentFg, bg |-> w.currentBg, style |-> w.currentStyle]

\* currentBuffer().cell(row, col) = c. A position past the vector is a write
\* outside the buffer: the model drops it and records the fact in oob.
WriteCell(w, row, col, c) ==
    LET buf == currentBuffer(w)
        i == CellIndex(buf, row, col)
    IN IF row >= 0 /\ col >= 0 /\ InVector(buf, i)
       THEN SetCurrentBuffer(w, [buf EXCEPT !.cells[i] = c])
       ELSE [w EXCEPT !.oob = TRUE]

clampCursor(w) ==
    [w EXCEPT !.cursorRow = Clamp(w.cursorRow, 0, currentBuffer(w).rows - 1),
              !.cursorCol = Clamp(w.cursorCol, 0, currentBuffer(w).cols - 1)]

setCursorRow(w, row) == clampCursor([w EXCEPT !.cursorRow = row])
setCursorCol(w, col) == clampCursor([w EXCEPT !.cursorCol = col])

\* setCursorPos storing the row and leaving the column
setCursorPosRowOnly(w, r, c, doClamp) == [w EXCEPT !.cursorRow = r]

setCursorPos(w, r, c, doClamp) ==
    LET rr == IF doClamp THEN Clamp(r, 0, currentBuffer(w).rows - 1) ELSE r
        cc == IF doClamp THEN Clamp(c, 0, currentBuffer(w).cols - 1) ELSE c
    IN [w EXCEPT !.cursorRow = rr, !.cursorCol = cc]

saveCursorPos(w) ==
    [w EXCEPT !.savedCursorRow = w.cursorRow, !.savedCursorCol = w.cursorCol]

restoreCursorPos(w) ==
    clampCursor([w EXCEPT !.cursorRow = w.savedCursorRow, !.cursorCol = w.savedCursorCol])

setMouseEnabled(w, on) == [w EXCEPT !.mouseEnabled = on]

fillScreen(buf, blank) ==
    [buf EXCEPT !.cells = [i \in 1..Len(buf.cells) |->
        IF i <= buf.rows * buf.cols THEN blank ELSE buf.cells[i]]]

\* useAlternateScreen switching without resizing or blanking the alternate buffer
useAlternateScreenAsIs(w, alt) == [w EXCEPT !.inAlternateScreen = alt]

useAlternateScreen(w, alt) ==
    IF w.inAlternateScreen = alt THEN w
    ELSE IF alt
         THEN [w EXCEPT !.alternateScreen =
                           fillScreen(BufResize(w.alternateScreen, w.mainScreen.rows,
                                                w.mainScreen.cols),
                                      makeCellForCurrentAttr(w)),
                        !.inAlternateScreen = TRUE]
         ELSE [w EXCEPT !.inAlternateScreen = FALSE]

\* setScrollingRegion storing its arguments as given
setScrollingRegionAsGiven(w, top, bottom) ==
    [w EXCEPT !.scrollRegionTop = top, !.scrollRegionBottom = bottom]

setScrollingRegion(w, top, bottom) ==
    IF bottom < top
    THEN [w EXCEPT !.scrollRegionTop = 0,
                   !.scrollRegionBottom = currentBuffer(w).rows - 1]
    ELSE [w EXCEPT !.scrollRegionTop = Clamp(top, 0, currentBuffer(w).rows - 1),
                   !.scrollRegionBottom = Clamp(bottom, 0, currentBuffer(w).rows - 1)]

\* PushScrollback without the pop_front: the scrollback grows without bound.
PushNoEvict(sb, row) == sb \o <<row>>

\* m_scrollbackBuffer: pop_front when it holds m_scrollbackMax rows, then push_back.
PushScrollback(sb, row) ==
    (IF Len(sb) = ScrollbackMax THEN Tail(sb) ELSE sb) \o <<row>>

\* scrollUp(top, bottom): copy_n of the top row, memmove of the rows below it,
\* fillRow of the bottom row, then the push into the scrollback.
scrollUp(w, top, bottom) ==
    LET buf == currentBuffer(w)
        cols == buf.cols
        regionHeight == bottom - top + 1
        first == CellIndex(buf, top, 0)
        firstRow == [c \in 1..cols |-> buf.cells[first + c - 1]]
        moved == [buf EXCEPT !.cells = [i \in 1..Len(buf.cells) |->
                    IF regionHeight > 1 /\ i >= first
                       /\ i < first + (regionHeight - 1) * cols
                    THEN buf.cells[i + cols] ELSE buf.cells[i]]]
        filled == BufFillRow(moved, bottom, 0, cols, makeCellForCurrentAttr(w))
        w1 == SetCurrentBuffer(w, filled)
    IN IF regionHeight <= 0 THEN w
       ELSE [w1 EXCEPT !.scrollbackBuffer = PushScrollback(w.scrollbackBuffer, firstRow),
                       !.pushed = Append(w.pushed, firstRow)]

\* scrollDown blanking the top row of the region and moving no row
scrollDownBlankOnly(w, top, bottom) ==
    IF bottom - top + 1 <= 0 THEN w
    ELSE SetCurrentBuffer(w, BufFillRow(currentBuffer(w), top, 0, currentBuffer(w).cols,
                                        makeCellForCurrentAttr(w)))

scrollDown(w, top, bottom) ==
    LET buf == currentBuffer(w)
        cols == buf.cols
        regionHeight == bottom - top + 1
        first == CellIndex(buf, top, 0)
        moved == [buf EXCEPT !.cells = [i \in 1..Len(buf.cells) |->
                    IF regionHeight > 1 /\ i >= first + cols
                       /\ i < first + regionHeight * cols
                    THEN buf.cells[i - cols] ELSE buf.cells[i]]]
        filled == BufFillRow(moved, top, 0, cols, makeCellForCurrentAttr(w))
    IN IF regionHeight <= 0 THEN w ELSE SetCurrentBuffer(w, filled)

\* lineFeed without the scrollUp call: past the region bottom the cursor is only
\* put back on it.
lineFeedNoScroll(w) ==
    LET w1 == [w EXCEPT !.cursorRow = w.cursorRow + 1]
    IN IF w1.cursorRow > w1.scrollRegionBottom
       THEN clampCursor([w1 EXCEPT !.cursorRow = w1.scrollRegionBottom])
       ELSE clampCursor(w1)

lineFeed(w) ==
    LET w1 == [w EXCEPT !.cursorRow = w.cursorRow + 1]
    IN IF w1.cursorRow > w1.scrollRegionBottom
       THEN clampCursor([scrollUp(w1, w1.scrollRegionTop, w1.scrollRegionBottom)
                            EXCEPT !.cursorRow = w1.scrollRegionBottom])
       ELSE clampCursor(w1)

reverseLineFeed(w) ==
    IF w.cursorRow = w.scrollRegionTop
    THEN clampCursor(scrollDown(w, w.scrollRegionTop, w.scrollRegionBottom))
    ELSE clampCursor([w EXCEPT !.cursorRow = Max(w.cursorRow - 1, 0)])

\* QChar::isPrint for the characters the decoder can produce.
IsSurrogate(ch) == ch >= 55296 /\ ch <= 57343
IsPrint(ch) == ch >= 32 /\ ~(ch >= 127 /\ ch <= 159) /\ ~IsSurrogate(ch)

\* putChar going back to column 0 of the same row when the row is full
putCharSameRow(w, ch) ==
    IF ~IsPrint(ch) \/ ch = DEL \/ IsSurrogate(ch) THEN w
    ELSE LET w1 == IF w.cursorCol >= currentBuffer(w).cols
                   THEN [w EXCEPT !.cursorCol = 0]
                   ELSE w
         IN [WriteCell(w1, w1.cursorRow, w1.cursorCol,
                       [ch |-> ch, fg |-> w1.currentFg, bg |-> w1.currentBg,
                        style |-> w1.currentStyle])
                EXCEPT !.cursorCol = w1.cursorCol + 1]

putChar(w, ch) ==
    IF ch = CR THEN clampCursor([w EXCEPT !.cursorCol = 0])
    ELSE IF ch = LF THEN clampCursor([lineFeed(w) EXCEPT !.cursorCol = 0])
    ELSE IF ~IsPrint(ch) \/ ch = DEL \/ IsSurrogate(ch) THEN w
    ELSE LET w1 == IF w.cursorCol >= currentBuffer(w).cols
                   THEN [lineFeed(w) EXCEPT !.cursorCol = 0]
                   ELSE w
             w2 == WriteCell(w1, w1.cursorRow, w1.cursorCol,
                             [ch |-> ch, fg |-> w1.currentFg, bg |-> w1.currentBg,
                              style |-> w1.currentStyle])
         IN [w2 EXCEPT !.cursorCol = w1.cursorCol + 1]

\* for (c = startCol; c < endCol; ++c) currentBuffer().cell(row, c) = fill,
\* with no clamp of c: columns >= cols are cells of the rows below, or past the vector.
WriteCells(w, row, startCol, endCol, fill) ==
    LET buf == currentBuffer(w)
        lo == CellIndex(buf, row, startCol)
        hi == CellIndex(buf, row, endCol) - 1
        nb == [buf EXCEPT !.cells = [i \in 1..Len(buf.cells) |->
                  IF i >= lo /\ i <= hi THEN fill ELSE buf.cells[i]]]
        w1 == SetCurrentBuffer(w, nb)
    IN IF startCol >= endCol THEN w
       ELSE IF hi > Len(buf.cells) \/ lo < 1 THEN [w1 EXCEPT !.oob = TRUE]
       ELSE w1

\* One pass of the deleteChars loop: shift the row left from the cursor, blank the last cell.
DeleteOne(w) ==
    LET buf == currentBuffer(w)
        row == w.cursorRow
        shifted == [buf EXCEPT !.cells = [i \in 1..Len(buf.cells) |->
                      IF i >= CellIndex(buf, row, w.cursorCol)
                         /\ i < CellIndex(buf, row, buf.cols - 1)
                      THEN buf.cells[i + 1] ELSE buf.cells[i]]]
    IN WriteCell(SetCurrentBuffer(w, shifted), row, buf.cols - 1, makeCellForCurrentAttr(w))

RECURSIVE DeleteLoop(_, _)
\* for (count = 0; count < n; ++count) of deleteChars. A pass that changes
\* nothing is followed only by passes that change nothing.
DeleteLoop(w, n) ==
    IF n <= 0 \/ DeleteOne(w) = w THEN w ELSE DeleteLoop(DeleteOne(w), n - 1)

deleteChars(w, n) ==
    IF w.cursorRow < 0 \/ w.cursorRow >= currentBuffer(w).rows \/ n < 1 THEN w
    ELSE DeleteLoop(w, n)

\* One pass of the insertChars loop: shift the row right from the cursor, blank the cursor cell.
InsertOne(w) ==
    LET buf == currentBuffer(w)
        row == w.cursorRow
        shifted == [buf EXCEPT !.cells = [i \in 1..Len(buf.cells) |->
                      IF i > CellIndex(buf, row, w.cursorCol)
                         /\ i <= CellIndex(buf, row, buf.cols - 1)
                      THEN buf.cells[i - 1] ELSE buf.cells[i]]]
    IN WriteCell(SetCurrentBuffer(w, shifted), row, w.cursorCol, makeCellForCurrentAttr(w))

RECURSIVE InsertLoop(_, _)
\* for (count = 0; count < n; ++count) of insertChars. A pass that changes
\* nothing is followed only by passes that change nothing.
InsertLoop(w, n) ==
    IF n <= 0 \/ InsertOne(w) = w THEN w ELSE InsertLoop(InsertOne(w), n - 1)

insertChars(w, n) ==
    IF w.cursorRow < 0 \/ w.cursorRow >= currentBuffer(w).rows \/ n < 1 THEN w
    ELSE InsertLoop(w, n)

eraseChars(w, n) ==
    IF w.cursorRow < 0 \/ w.cursorRow >= currentBuffer(w).rows \/ n < 1 THEN w
    ELSE LET cols == currentBuffer(w).cols
             col == w.cursorCol
             \* one past the last c = m_cursorCol + i the loop reaches before
             \* its break at c >= cols
             endCol == IF col >= 0 THEN col + Min(n, cols - col) ELSE Min(col + n, cols)
         IN IF col >= cols THEN w
            ELSE WriteCells(w, w.cursorRow, col, endCol, makeCellForCurrentAttr(w))

eraseInLine(w, mode) ==
    LET cols == currentBuffer(w).cols
        startCol == IF mode = 0 THEN w.cursorCol ELSE 0
        endCol == IF mode = 1 THEN w.cursorCol + 1 ELSE cols
    IN IF w.cursorRow < 0 \/ w.cursorRow >= currentBuffer(w).rows THEN w
       ELSE WriteCells(w, w.cursorRow, startCol, endCol, makeCellForCurrentAttr(w))

\* for (r = from; r < to; ++r) currentBuffer().fillRow(r, 0, cols, blank)
FillRows(w, from, to, blank) ==
    LET buf == currentBuffer(w)
    IN SetCurrentBuffer(w, [buf EXCEPT !.cells = [i \in 1..Len(buf.cells) |->
           IF i >= CellIndex(buf, Max(from, 0), 0) /\ i < CellIndex(buf, Min(to, buf.rows), 0)
           THEN blank ELSE buf.cells[i]]])

eraseInDisplay(w, mode) ==
    LET blank == makeCellForCurrentAttr(w)
    IN IF mode = 2 THEN SetCurrentBuffer(w, fillScreen(currentBuffer(w), blank))
       ELSE IF mode = 0
            THEN FillRows(eraseInLine(w, 0), w.cursorRow + 1, currentBuffer(w).rows, blank)
       ELSE IF mode = 1
            THEN FillRows(eraseInLine(w, 1), 0, w.cursorRow, blank)
       ELSE w

\* setTerminalSize(rows, cols): both vectors are resized in place, the overlap of
\* the main screen is copied back from the old copy, the rows below it are
\* blanked, the region is reset. The cursor is not touched.
setTerminalSize(w, rows, cols) ==
    LET oldMain == w.mainScreen
        newMain == BufResize(w.mainScreen, rows, cols)
        copyRows == Min(rows, oldMain.rows)
        copyCols == Min(cols, oldMain.cols)
        blankCell == makeCellForCurrentAttr(w)
        cells == [i \in 1..(rows * cols) |->
                    LET r == (i - 1) \div cols
                        c == (i - 1) % cols
                    IN IF r >= copyRows THEN blankCell
                       ELSE IF c < copyCols THEN oldMain.cells[CellIndex(oldMain, r, c)]
                       ELSE newMain.cells[i]]
    IN IF oldMain.rows = rows /\ oldMain.cols = cols THEN w
       ELSE [w EXCEPT !.mainScreen = [newMain EXCEPT !.cells = cells],
                      !.alternateScreen = BufResize(w.alternateScreen, rows, cols),
                      !.scrollRegionTop = 0,
                      !.scrollRegionBottom = rows - 1]

fullReset(w) ==
    LET blank == makeCellForCurrentAttr(w)
    IN [w EXCEPT !.scrollbackBuffer = << >>,
                 !.pushed = << >>,
                 !.mainScreen = fillScreen(w.mainScreen, blank),
                 !.alternateScreen = fillScreen(w.alternateScreen, blank),
                 !.inAlternateScreen = FALSE,
                 !.cursorRow = 0, !.cursorCol = 0,
                 !.currentFg = 7, !.currentBg = 0, !.currentStyle = 0,
                 !.scrollRegionTop = 0,
                 !.scrollRegionBottom = w.mainScreen.rows - 1]

\* style |= bit,  style &= ~bit  on the unsigned char bitmask
HasBit(s, bit) == (s \div bit) % 2 = 1
SetBit(s, bit) == IF HasBit(s, bit) THEN s ELSE s + bit
ClearBit(s, bit) == IF HasBit(s, bit) THEN s - bit ELSE s

RECURSIVE SgrLoop(_, _, _)
\* the while (i < params.size()) loop of setSGR; i counts from 1 here
SgrLoop(w, params, i) ==
    IF i > Len(params) THEN w
    ELSE LET p == params[i]
             j == i + 1
         IN IF p = 0 THEN SgrLoop([w EXCEPT !.currentFg = 7, !.currentBg = 0,
                                            !.currentStyle = 0], params, j)
            ELSE IF p = 1 THEN SgrLoop([w EXCEPT !.currentStyle = SetBit(@, Bold)], params, j)
            ELSE IF p = 4 THEN SgrLoop([w EXCEPT !.currentStyle = SetBit(@, Underline)], params, j)
            ELSE IF p = 7 THEN SgrLoop([w EXCEPT !.currentStyle = SetBit(@, Inverse)], params, j)
            ELSE IF p = 22 THEN SgrLoop([w EXCEPT !.currentStyle = ClearBit(@, Bold)], params, j)
            ELSE IF p = 24 THEN SgrLoop([w EXCEPT !.currentStyle = ClearBit(@, Underline)], params, j)
            ELSE IF p = 27 THEN SgrLoop([w EXCEPT !.currentStyle = ClearBit(@, Inverse)], params, j)
            ELSE IF p = 39 THEN SgrLoop([w EXCEPT !.currentFg = 7], params, j)
            ELSE IF p = 49 THEN SgrLoop([w EXCEPT !.currentBg = 0], params, j)
            ELSE IF p >= 30 /\ p <= 37 THEN SgrLoop([w EXCEPT !.currentFg = p - 30], params, j)
            ELSE IF p >= 40 /\ p <= 47 THEN SgrLoop([w EXCEPT !.currentBg = p - 40], params, j)
            ELSE IF p >= 90 /\ p <= 97
                 THEN SgrLoop([w EXCEPT !.currentFg = (p - 90) + 8], params, j)
            ELSE IF p >= 100 /\ p <= 107
                 THEN SgrLoop([w EXCEPT !.currentBg = (p - 100) + 8], params, j)
            ELSE IF p = 38 \/ p = 48
                 THEN \* if (i + 1 < size && params[i] == 5) { i++; if (i < size) set(params[i++]) }
                      IF j + 1 <= Len(params) /\ params[j] = 5
                      THEN IF p = 38
                           THEN SgrLoop([w EXCEPT !.currentFg = params[j + 1]], params, j + 2)
                           ELSE SgrLoop([w EXCEPT !.currentBg = params[j + 1]], params, j + 2)
                      ELSE SgrLoop(w, params, j)
            ELSE SgrLoop(w, params, j)

\* setSGR skipping every code 0
setSGRWithoutZero(w, params) ==
    SgrLoop(w, SelectSeq(params, LAMBDA p : p # 0), 1)

\* setSGR acting on its first parameter only
setSGRFirstOnly(w, params) == SgrLoop(w, SubSeq(params, 1, 1), 1)

setSGR(w, params) ==
    IF params = << >>
    THEN [w EXCEPT !.currentFg = 7, !.currentBg = 0, !.currentStyle = 0]
    ELSE SgrLoop(w, params, 1)

\* ---------------------------------------------------- EscapeSequenceParser
\* resetStateMachine(), called by the constructor
NewParser ==
    [state |-> "Ground", textBuffer |-> << >>, paramBuffer |-> << >>,
     intermediate |-> << >>, oscString |-> << >>, escQuestionMark |-> FALSE]

IsCont(b) == b >= 128 /\ b <= 191

\* UTF-16 code units of a code point (QString stores UTF-16)
Utf16(cp) ==
    IF cp < 65536 THEN <<cp>>
    ELSE <<55296 + ((cp - 65536) \div 1024), 56320 + ((cp - 65536) % 1024)>>

RECURSIVE fromUtf8(_)
\* QString::fromUtf8: well-formed sequences decode to their code point, any
\* other byte to U+FFFD.
fromUtf8(b) ==
    IF b = << >> THEN << >>
    ELSE LET c == Head(b)
             n == IF c < 128 THEN 1
                  ELSE IF c >= 194 /\ c <= 223 THEN 2
                  ELSE IF c >= 224 /\ c <= 239 THEN 3
                  ELSE IF c >= 240 /\ c <= 244 THEN 4
                  ELSE 0
             ok == n > 0 /\ Len(b) >= n /\ \A k \in 2..n : IsCont(b[k])
             cp == IF n = 1 THEN c
                   ELSE IF n = 2 THEN (c - 192) * 64 + (b[2] - 128)
                   ELSE IF n = 3 THEN (c - 224) * 4096 + (b[2] - 128) * 64 + (b[3] - 128)
                   ELSE (c - 240) * 262144 + (b[2] - 128) * 4096 + (b[3] - 128) * 64
                        + (b[4] - 128)
             wellFormed == ok /\ (n = 3 => cp >= 2048 /\ ~IsSurrogate(cp))
                              /\ (n = 4 => cp >= 65536 /\ cp <= 1114111)
         IN IF wellFormed THEN Utf16(cp) \o fromUtf8(SubSeq(b, n + 1, Len(b)))
            ELSE <<65533>> \o fromUtf8(Tail(b))

RECURSIVE FlushLoop(_, _, _)
\* the for loop of flushTextBuffer over the decoded chunk; i counts from 1.
\* A joined surrogate pair is re-encoded by QString::fromUcs4 and its first
\* code unit (the high surrogate again) is what putChar receives.
FlushLoop(w, chunk, i) ==
    IF i > Len(chunk) THEN w
    ELSE LET ch == chunk[i]
         IN IF ch >= 55296 /\ ch <= 56319 /\ i + 1 <= Len(chunk)
               /\ chunk[i + 1] >= 56320 /\ chunk[i + 1] <= 57343
            THEN LET ucs4 == 65536 + ((ch - 55296) * 1024 + (chunk[i + 1] - 56320))
                 IN FlushLoop(putChar(w, Utf16(ucs4)[1]), chunk, i + 2)
            ELSE IF ch = CR
                 THEN FlushLoop(setCursorPos(w, w.cursorRow, 0, TRUE), chunk, i + 1)
            ELSE IF ch = LF THEN FlushLoop(lineFeed(w), chunk, i + 1)
            ELSE FlushLoop(putChar(w, ch), chunk, i + 1)

\* s is the pair of objects: [w |-> the TerminalWidget, p |-> the parser]
flushTextBuffer(s) ==
    IF s.p.textBuffer = << >> THEN s
    ELSE [w |-> FlushLoop(s.w, fromUtf8(s.p.textBuffer), 1),
          p |-> [s.p EXCEPT !.textBuffer = << >>]]

handleControlChar(w, c0) ==
    IF c0 = CR THEN setCursorPos(w, w.cursorRow, 0, TRUE)
    ELSE IF c0 = LF THEN lineFeed(w)
    ELSE IF c0 = BS THEN clampCursor(setCursorCol(w, w.cursorCol - 1))
    ELSE IF c0 = HT THEN clampCursor(setCursorCol(w, ((w.cursorCol \div 8) + 1) * 8))
    ELSE w

IsDigit(b) == b >= 48 /\ b <= 57

RECURSIVE SplitSemi(_)
\* QByteArray::split(';'): the fields between the separators, empty ones kept
SplitSemi(buf) ==
    IF \A k \in 1..Len(buf) : buf[k] # 59 THEN <<buf>>
    ELSE LET k == CHOOSE k \in 1..Len(buf) :
                      buf[k] = 59 /\ \A j \in 1..(k - 1) : buf[j] # 59
         IN <<SubSeq(buf, 1, k - 1)>> \o SplitSemi(SubSeq(buf, k + 1, Len(buf)))

IntMax == 2147483647

RECURSIVE DigitsValue(_, _)
\* the value of the digits, or -1 once it no longer fits an int
DigitsValue(part, acc) ==
    IF part = << >> THEN acc
    ELSE IF acc < 0 \/ acc > (IntMax - (Head(part) - 48)) \div 10 THEN 0 - 1
    ELSE DigitsValue(Tail(part), acc * 10 + (Head(part) - 48))

\* toInt(&ok) of a field of decimal digits: ok is false for an empty field and
\* for a value that does not fit an int.
ToInt(part) ==
    LET digits == part # << >> /\ \A k \in 1..Len(part) : IsDigit(part[k])
        v == IF digits THEN DigitsValue(part, 0) ELSE 0
    IN IF digits /\ v >= 0 THEN [ok |-> TRUE, v |-> v] ELSE [ok |-> FALSE, v |-> 0]

\* the parameter list built at the top of csiDispatch
ParseParams(paramBuffer) ==
    IF paramBuffer = << >> THEN <<0>>
    ELSE LET parts == SplitSemi(paramBuffer)
         IN [k \in 1..Len(parts) |->
                LET r == ToInt(parts[k]) IN IF ~r.ok \/ r.v < 0 THEN 0 ELSE r.v]

\* the lambda P(idx, def) of csiDispatch; idx counts from 0 as in the code
P(params, idx, def) ==
    IF idx >= 0 /\ idx < Len(params) THEN params[idx + 1] ELSE def

doSetMode(w, p) ==
    IF p = 47 \/ p = 1047 \/ p = 1049 THEN useAlternateScreen(w, TRUE)
    ELSE IF p = 1000 THEN setMouseEnabled(w, TRUE)
    ELSE w

doResetMode(w, p) ==
    IF p = 47 \/ p = 1047 \/ p = 1049 THEN useAlternateScreen(w, FALSE)
    ELSE IF p = 1000 THEN setMouseEnabled(w, FALSE)
    ELSE w

\* The switch of csiDispatch. It has no case for 'h' or 'l': doSetMode and
\* doResetMode are defined in the file and called from nowhere.
\* a + b in int: past INT_MAX the addition is undefined; the sum a build that
\* goes on computes is the two's complement one
IntAddOverflows(a, b) == a > 0 /\ b > IntMax - a
IntAdd(a, b) ==
    IF IntAddOverflows(a, b) THEN ((a - 1) - (IntMax - b)) - IntMax - 1 ELSE a + b

CsiSwitch(w, params, finalByte) ==
    LET rows == currentBuffer(w).rows
        cols == currentBuffer(w).cols
        curR == w.cursorRow
        curC == w.cursorCol
    IN IF finalByte = 65 THEN clampCursor(setCursorRow(w, curR - P(params, 0, 1)))
       ELSE IF finalByte = 66
            THEN [clampCursor(setCursorRow(w, IntAdd(curR, P(params, 0, 1))))
                     EXCEPT !.overflow = @ \/ IntAddOverflows(curR, P(params, 0, 1))]
       ELSE IF finalByte = 67
            THEN [setCursorCol(w, Min(IntAdd(curC, P(params, 0, 1)), cols - 1))
                     EXCEPT !.overflow = @ \/ IntAddOverflows(curC, P(params, 0, 1))]
       ELSE IF finalByte = 68 THEN setCursorCol(w, Max(curC - P(params, 0, 1), 0))
       ELSE IF finalByte = 71
            THEN setCursorPos(w, curR, Clamp(P(params, 0, 1) - 1, 0, cols - 1), FALSE)
       ELSE IF finalByte = 72 \/ finalByte = 102
            THEN setCursorPos(w, Clamp(P(params, 0, 1) - 1, 0, rows - 1),
                              Clamp(P(params, 1, 1) - 1, 0, cols - 1), FALSE)
       ELSE IF finalByte = 74 THEN eraseInDisplay(w, P(params, 0, 0))
       ELSE IF finalByte = 75 THEN eraseInLine(w, P(params, 0, 0))
       ELSE IF finalByte = 80 THEN deleteChars(w, P(params, 0, 1))
       ELSE IF finalByte = 88 THEN eraseChars(w, P(params, 0, 1))
       ELSE IF finalByte = 64 THEN insertChars(w, P(params, 0, 1))
       ELSE IF finalByte = 109 THEN setSGR(w, params)
       ELSE IF finalByte = 114
            THEN LET top == Clamp(P(params, 0, 1) - 1, 0, rows - 1)
                     bottom == Clamp(P(params, 1, rows) - 1, 0, rows - 1)
                 IN setScrollingRegion(w, Min(top, bottom), Max(top, bottom))
       ELSE w

csiDispatch(s, finalByte) ==
    [w |-> CsiSwitch(s.w, ParseParams(s.p.paramBuffer), finalByte),
     p |-> [s.p EXCEPT !.paramBuffer = << >>, !.intermediate = << >>]]

\* oscDispatch. The QStringView osc is built from a temporary QString that is
\* destroyed before osc is read: every read of a non-empty osc is a read of
\* freed storage (dangling). The operator computes the outcome in which the
\* storage still holds the string.
oscDispatch(s) ==
    LET osc == s.p.oscString
        hasSep == \E k \in 1..Len(osc) : osc[k] = 59
        sep == CHOOSE k \in 1..Len(osc) : osc[k] = 59 /\ \A j \in 1..(k - 1) : osc[j] # 59
        ps == ToInt(SubSeq(osc, 1, sep - 1))
        pt == SubSeq(osc, sep + 1, Len(osc))
        w1 == [s.w EXCEPT !.dangling = (osc # << >>)]
    IN [w |-> IF hasSep /\ ps.ok /\ (ps.v = 0 \/ ps.v = 2)
              THEN [w1 EXCEPT !.title = pt] ELSE w1,
        p |-> [s.p EXCEPT !.oscString = << >>]]

\* final bytes without '~'
IsFinalBelowTilde(b) == b >= 64 /\ b <= 125
IsFinal(b) == b >= 64 /\ b <= 126
IsIntermediate(b) == b >= 32 /\ b <= 47

processCsiSubState(s, b) ==
    LET st == s.p.state
    IN IF st = "CsiEntry"
       THEN IF b = 63 THEN [s EXCEPT !.p.escQuestionMark = TRUE, !.p.state = "CsiParam"]
            ELSE IF IsDigit(b) \/ b = 59
                 THEN [s EXCEPT !.p.paramBuffer = Append(@, b), !.p.state = "CsiParam"]
            ELSE IF IsIntermediate(b)
                 THEN [s EXCEPT !.p.intermediate = Append(@, b), !.p.state = "CsiIntermediate"]
            ELSE IF IsFinal(b) THEN [csiDispatch(s, b) EXCEPT !.p.state = "Ground"]
            ELSE [s EXCEPT !.p.state = "Ground"]
       ELSE IF st = "CsiParam"
       THEN IF IsDigit(b) \/ b = 59 THEN [s EXCEPT !.p.paramBuffer = Append(@, b)]
            ELSE IF IsIntermediate(b)
                 THEN [s EXCEPT !.p.intermediate = Append(@, b), !.p.state = "CsiIntermediate"]
            ELSE IF IsFinal(b) THEN [csiDispatch(s, b) EXCEPT !.p.state = "Ground"]
            ELSE [s EXCEPT !.p.state = "CsiIgnore"]
       ELSE IF st = "CsiIntermediate"
       THEN IF IsIntermediate(b) THEN [s EXCEPT !.p.intermediate = Append(@, b)]
            ELSE IF IsFinal(b) THEN [csiDispatch(s, b) EXCEPT !.p.state = "Ground"]
            ELSE [s EXCEPT !.p.state = "CsiIgnore"]
       ELSE IF st = "CsiIgnore"
       THEN IF IsFinal(b) THEN [s EXCEPT !.p.state = "Ground"] ELSE s
       ELSE s

\* g_cls: 1 for the C0 controls, 2 for ESC, 0 for every other byte
ByteClass(b) == IF b = ESC THEN 2 ELSE IF b < 32 THEN 1 ELSE 0

processByte(s, b) ==
    LET st == s.p.state
    IN IF st = "Ground"
       THEN IF ByteClass(b) = 0 THEN [s EXCEPT !.p.textBuffer = Append(@, b)]
            ELSE IF ByteClass(b) = 1
                 THEN LET f == flushTextBuffer(s)
                      IN [f EXCEPT !.w = handleControlChar(f.w, b)]
            ELSE [flushTextBuffer(s) EXCEPT !.p.state = "Escape"]
       ELSE IF st = "Escape"
       THEN IF b = 91
            THEN [s EXCEPT !.p.state = "CsiEntry", !.p.paramBuffer = << >>,
                           !.p.intermediate = << >>, !.p.escQuestionMark = FALSE]
            ELSE IF b = 93 THEN [s EXCEPT !.p.state = "OscString", !.p.oscString = << >>]
            ELSE IF b = 55 THEN [s EXCEPT !.w = saveCursorPos(@), !.p.state = "Ground"]
            ELSE IF b = 56 THEN [s EXCEPT !.w = restoreCursorPos(@), !.p.state = "Ground"]
            ELSE IF b = 68 THEN [s EXCEPT !.w = lineFeed(@), !.p.state = "Ground"]
            ELSE IF b = 77 THEN [s EXCEPT !.w = reverseLineFeed(@), !.p.state = "Ground"]
            ELSE IF b = 69
                 THEN LET w1 == lineFeed(s.w)
                      IN [s EXCEPT !.w = setCursorPos(w1, w1.cursorRow, 0, TRUE),
                                   !.p.state = "Ground"]
            ELSE IF b = 99 THEN [s EXCEPT !.w = fullReset(@), !.p.state = "Ground"]
            ELSE [s EXCEPT !.p.state = "Ground"]
       ELSE IF st \in {"CsiEntry", "CsiParam", "CsiIntermediate", "CsiIgnore"}
       THEN processCsiSubState(s, b)
       ELSE IF st = "OscString"
       THEN IF b = BEL THEN [oscDispatch(s) EXCEPT !.p.state = "Ground"]
            ELSE IF b = ESC THEN [s EXCEPT !.p.oscString = Append(@, ESC)]
            ELSE IF b = 92
                 THEN IF s.p.oscString # << >> /\ s.p.oscString[Len(s.p.oscString)] = ESC
                      THEN [oscDispatch([s EXCEPT !.p.oscString =
                                            SubSeq(@, 1, Len(@) - 1)])
                               EXCEPT !.p.state = "Ground"]
                      ELSE [s EXCEPT !.p.oscString = Append(@, 92)]
            ELSE [s EXCEPT !.p.oscString = Append(@, b)]
       ELSE s

RECURSIVE FeedBytes(_, _)
\* for (char c : data) processByte(c)
FeedBytes(s, data) ==
    IF data = << >> THEN s ELSE FeedBytes(processByte(s, Head(data)), Tail(data))

\* What one feed() starts from: the flags and counts that say what a call did
\* are cleared.
Entered(s) ==
    [s EXCEPT !.w.oob = FALSE, !.w.dangling = FALSE, !.w.overflow = FALSE,
              !.w.updates = 0, !.w.settled = TRUE]

\* m_widget->updateScreen(): a repaint request.
updateScreen(s) ==
    [s EXCEPT !.w.updates = @ + 1, !.w.settled = @ /\ s.p.textBuffer = << >>]

\* feed ending with resetStateMachine(): nothing of a sequence survives the call.
feedResetting(s, data) ==
    [updateScreen(flushTextBuffer(FeedBytes(Entered(s), data))) EXCEPT !.p = NewParser]

\* feed requesting the repaint before and after it flushes the pending text
feedUpdatingTwice(s, data) ==
    updateScreen(flushTextBuffer(updateScreen(FeedBytes(Entered(s), data))))

\* EscapeSequenceParser::feed: every byte, then flushTextBuffer, then one
\* updateScreen.
feed(s, data) ==
    updateScreen(flushTextBuffer(FeedBytes(Entered(s), data)))

\* ------------------------------------------------------------ selection
\* m_selecting, m_hasSelection and the anchor / active points. The constructor
\* leaves the four coordinates unset; they are written by the press that must
\* precede any read.
NoSelection ==
    [selecting |-> FALSE, hasSelection |-> FALSE,
     anchorLine |-> 0, anchorCol |-> 0, activeLine |-> 0, activeCol |-> 0]

\* clampLineCol(line, col), as the pair it leaves in its two reference arguments
clampLineCol(w, line, col) ==
    <<Clamp(line, 0, Len(w.scrollbackBuffer) + currentBuffer(w).rows - 1),
      Clamp(col, 0, currentBuffer(w).cols - 1)>>

\* getCellsAtAbsoluteLine(absLine): null, or a pointer to the first cell of the
\* row. cells is what can be read through that pointer: the scrollback row's
\* vector, or the screen's vector from the row's first cell on.
getCellsAtAbsoluteLine(w, absLine) ==
    LET sb == w.scrollbackBuffer
        buf == currentBuffer(w)
        offset == absLine - Len(sb)
    IN IF absLine < Len(sb)
       THEN IF absLine < 0 THEN [null |-> FALSE, cells |-> << >>]
            ELSE [null |-> FALSE, cells |-> sb[absLine + 1]]
       ELSE IF offset >= 0 /\ offset < buf.rows
       THEN [null |-> FALSE,
             cells |-> SubSeq(buf.cells, CellIndex(buf, offset, 0), Len(buf.cells))]
       ELSE [null |-> TRUE, cells |-> << >>]

\* QChar::isSpace
IsSpace(ch) ==
    ch \in (9..13) \cup {32, 133, 160, 5760, 8232, 8233, 8239, 8287, 12288}
              \cup (8192..8202)

hasSelection(sel) ==
    /\ sel.hasSelection
    /\ ~(sel.anchorLine = sel.activeLine /\ sel.anchorCol = sel.activeCol)

\* The body of selectedText's loop for one line: the text of the line, whether
\* the line was skipped (no cells), whether a cell past the row's storage was read.
SelectedLine(w, sel, absLine, startLine, endLine) ==
    LET row == getCellsAtAbsoluteLine(w, absLine)
        cols == currentBuffer(w).cols
        sc0 == IF absLine = startLine
               THEN (IF sel.anchorLine < sel.activeLine THEN sel.anchorCol ELSE sel.activeCol)
               ELSE 0
        ec0 == IF absLine = endLine
               THEN (IF sel.anchorLine > sel.activeLine THEN sel.anchorCol ELSE sel.activeCol)
               ELSE cols - 1
        sc == Clamp(IF sc0 > ec0 THEN ec0 ELSE sc0, 0, cols - 1)
        ec == Clamp(IF sc0 > ec0 THEN sc0 ELSE ec0, 0, cols - 1)
    IN [skipped |-> row.null,
        text |-> [i \in 1..(ec - sc + 1) |->
                    IF sc + i <= Len(row.cells) THEN row.cells[sc + i].ch ELSE 0],
        oob |-> ~row.null /\ ec + 1 > Len(row.cells)]

RECURSIVE SelectedLines(_, _, _, _, _)
\* for (absLine = startLine; absLine <= endLine; ++absLine), then join("\n")
SelectedLines(w, sel, absLine, startLine, endLine) ==
    IF absLine > endLine THEN [text |-> << >>, oob |-> FALSE, first |-> TRUE]
    ELSE LET l == SelectedLine(w, sel, absLine, startLine, endLine)
             rest == SelectedLines(w, sel, absLine + 1, startLine, endLine)
         IN IF l.skipped THEN rest
            ELSE [text |-> IF rest.first THEN l.text ELSE l.text \o <<LF>> \o rest.text,
                  oob |-> l.oob \/ rest.oob,
                  first |-> FALSE]

\* selectedText(): the text, and whether computing it read past a row's storage
selectedText(w, sel) ==
    IF ~hasSelection(sel) THEN [text |-> << >>, oob |-> FALSE]
    ELSE LET r == SelectedLines(w, sel, Min(sel.anchorLine, sel.activeLine),
                                Min(sel.anchorLine, sel.activeLine),
                                Max(sel.anchorLine, sel.activeLine))
         IN [text |-> r.text, oob |-> r.oob]

RECURSIVE WordStart(_, _)
\* while (startCol > 0 && !cells[startCol - 1].ch.isSpace()) startCol--
WordStart(cells, startCol) ==
    IF startCol > 0 /\ startCol <= Len(cells) /\ ~IsSpace(cells[startCol].ch)
    THEN WordStart(cells, startCol - 1) ELSE startCol

RECURSIVE WordEnd(_, _, _)
\* while (endCol < cols - 1 && !cells[endCol + 1].ch.isSpace()) endCol++
\* stopping as well at the first cell past the row's storage
WordEnd(cells, cols, endCol) ==
    IF endCol < cols - 1 /\ endCol + 2 <= Len(cells) /\ ~IsSpace(cells[endCol + 2].ch)
    THEN WordEnd(cells, cols, endCol + 1) ELSE endCol

\* ------------------------------------------------------------ the session
\* What the child writes. CSI(params, final) is ESC [ params final.
CSI(params, final) == <<ESC, 91>> \o params \o <<final>>

AltOn == CSI(<<63, 49, 48, 52, 57>>, 104)      \* ESC [ ? 1 0 4 9 h
AltOff == CSI(<<63, 49, 48, 52, 57>>, 108)     \* ESC [ ? 1 0 4 9 l
MouseOn == CSI(<<63, 49, 48, 48, 48>>, 104)    \* ESC [ ? 1 0 0 0 h
MouseOff == CSI(<<63, 49, 48, 48, 48>>, 108)   \* ESC [ ? 1 0 0 0 l
SetRegion == CSI(<<49, 59, 50>>, 114)          \* ESC [ 1 ; 2 r
ToRow3 == CSI(<<51>>, 72)                      \* ESC [ 3 H
SgrRed == CSI(<<51, 49>>, 109)                 \* ESC [ 3 1 m
FourLF == <<LF, LF, LF, LF>>
\* the bytes written between ESC[?1049h and ESC[?1049l by a full-screen program
AltBody == <<88, LF, LF, LF>>
RoundTrip == AltOn \o AltBody \o AltOff
OscBel == <<ESC, 93, 48, 59, 116, BEL>>        \* ESC ] 0 ; t BEL
OscSt == <<ESC, 93, 50, 59, 116, ESC, 92>>     \* ESC ] 2 ; t ESC \
\* ESC ] 2 ; a ; b LF ESC \ : a second ';' and a control byte inside the string
OscLong == <<ESC, 93, 50, 59, 97, 59, 98, LF, ESC, 92>>
\* ESC [ 3 8 ; 5 ; 3 0 0 m : a 256-colour foreground with index 300
SgrWide == CSI(<<51, 56, 59, 53, 59, 51, 48, 48>>, 109)
\* Terminated title strings with the title each is to set.
OscCases ==
    {[data |-> OscBel, title |-> <<116>>],
     [data |-> OscSt, title |-> <<116>>],
     [data |-> OscLong, title |-> <<97, 59, 98, LF>>]}
\* final bytes of the sequences that take a count: A B C D @ P X
CountFinals == {65, 66, 67, 68, 64, 80, 88}
NoParam(f) == CSI(<< >>, f)
ParamOne(f) == CSI(<<49>>, f)

\* ESC [ n @ (insertChars), ESC [ n P (deleteChars) and ESC [ n X (eraseChars)
\* for n = 2 and for n = 3, more than the model screen has columns.
CharsFinals == {64, 80, 88}
CharsScripts == {CSI(<<50>>, f) : f \in CharsFinals} \cup {CSI(<<51>>, f) : f \in CharsFinals}

RegionInverted == CSI(<<50, 59, 49>>, 114)     \* ESC [ 2 ; 1 r
RegionBeyond == CSI(<<57, 59, 57>>, 114)       \* ESC [ 9 ; 9 r
RegionDefault == CSI(<< >>, 114)               \* ESC [ r
\* cursor-setting sequences and controls, with missing, large and largest parameters
BigParam == <<50, 49, 52, 55, 52, 56, 51, 54, 52, 55>>   \* 2147483647
CursorSetters ==
    {CSI(<< >>, 71), CSI(<<57>>, 71), CSI(<<57>>, 65), CSI(<<57>>, 68),
     CSI(<<57, 59, 57>>, 72), CSI(<<57, 59, 57>>, 102),
     CSI(BigParam, 66), CSI(BigParam, 67),
     <<BS>>, <<HT>>, <<CR>>, <<ESC, 56>>}
    \cup {NoParam(f) : f \in {65, 66, 67, 68}}
\* sequences the decoder has no handler for
UnknownEsc == <<ESC, 61>>                      \* ESC =
UnknownCsi == CSI(<<53>>, 110)                 \* ESC [ 5 n
IntermediateCsi == CSI(<<32>>, 113)            \* ESC [ SP q
IgnoredCsi == CSI(<<49, 58>>, 109)             \* ESC [ 1 : m
OscOther == <<ESC, 93, 52, 59, 116, BEL>>      \* ESC ] 4 ; t BEL
OscNoSep == <<ESC, 93, 116, BEL>>              \* ESC ] t BEL
OscNonNumeric == <<ESC, 93, 116, 59, 116, BEL>> \* ESC ] t ; t BEL
OscEmpty == <<ESC, 93, BEL>>                   \* ESC ] BEL
Unrecognized ==
    {UnknownEsc, UnknownCsi, IntermediateCsi, IgnoredCsi,
     OscOther, OscNoSep, OscNonNumeric, OscEmpty}

\* Sequences written before the observed one, each read in one chunk.
\* ESC [ K, ESC [ 0 K, ESC [ 1 K, ESC [ 2 K and the same with J
ModeParams == {<< >>, <<48>>, <<49>>, <<50>>}
EraseLine(m) == CSI(m, 75)
EraseDisplay(m) == CSI(m, 74)
EraseScripts == {EraseLine(m) : m \in ModeParams} \cup {EraseDisplay(m) : m \in ModeParams}

\* ESC [ 1 ; 99 ; 38 ; 5 ; 200 ; 48 ; 5 ; 17 m: bold, an unknown code, a
\* 256-colour foreground and a 256-colour background
SgrMix ==
    CSI(<<49, 59, 57, 57, 59, 51, 56, 59, 53, 59, 50, 48, 48, 59,
          52, 56, 59, 53, 59, 49, 55>>, 109)
SgrReset0 == CSI(<<48>>, 109)                  \* ESC [ 0 m
SgrResetEmpty == CSI(<< >>, 109)               \* ESC [ m

\* U+00E9 and U+1F600 in UTF-8: two bytes, and four bytes that decode to a
\* surrogate pair
Eacute == <<195, 169>>
Emoji == <<240, 159, 152, 128>>

\* Positioning sequences with the row and column they carry on the wire (a
\* missing parameter is 1): ESC [ H, ESC [ 0 ; 0 H, ESC [ 2 ; 2 H, ESC [ 3 H,
\* ESC [ 9 ; 9 H, ESC [ 2 ; 2 f, ESC [ 9 ; 9 f
PosCases ==
    {[data |-> CSI(<< >>, 72), r |-> 1, c |-> 1],
     [data |-> CSI(<<48, 59, 48>>, 72), r |-> 0, c |-> 0],
     [data |-> CSI(<<50, 59, 50>>, 72), r |-> 2, c |-> 2],
     [data |-> CSI(<<51>>, 72), r |-> 3, c |-> 1],
     [data |-> CSI(<<57, 59, 57>>, 72), r |-> 9, c |-> 9],
     [data |-> CSI(<<50, 59, 50>>, 102), r |-> 2, c |-> 2],
     [data |-> CSI(<<57, 59, 57>>, 102), r |-> 9, c |-> 9]}
\* ESC [ G, ESC [ 0 G, ESC [ 2 G, ESC [ 9 G
ColCases ==
    {[data |-> CSI(<< >>, 71), c |-> 1],
     [data |-> CSI(<<48>>, 71), c |-> 0],
     [data |-> CSI(<<50>>, 71), c |-> 2],
     [data |-> CSI(<<57>>, 71), c |-> 9]}
\* ESC [ 1 ; 2 r, ESC [ 2 ; 1 r, ESC [ 2 ; 3 r, ESC [ 9 ; 9 r
RegionCases ==
    {[data |-> CSI(<<49, 59, 50>>, 114), t |-> 1, b |-> 2],
     [data |-> CSI(<<50, 59, 49>>, 114), t |-> 2, b |-> 1],
     [data |-> CSI(<<50, 59, 51>>, 114), t |-> 2, b |-> 3],
     [data |-> CSI(<<57, 59, 57>>, 114), t |-> 9, b |-> 9]}

\* Text followed by a control byte or by ESC 7, and X CR LF
TextThenControl == {<<88, c>> : c \in {CR, LF, BS, HT}} \cup {<<88, ESC, 55>>}
TextCrLf == <<88, CR, LF>>

\* ESC [ 3 K and ESC [ 3 J: erases with a mode that is none of 0, 1, 2
InvalidErase == {EraseLine(<<51>>), EraseDisplay(<<51>>)}

HistoryData == {<<88>>, <<88, 88>>, <<LF>>, SetRegion, ToRow3, SgrRed, SgrMix}

\* The observed sequence. The PTY may deliver it in any number of reads:
\* these scripts arrive in every division into chunks.
SplitScripts ==
    {<<88>>, <<LF>>, <<ESC, 77>>, <<ESC, 68>>, <<ESC, 55>>, <<ESC, 56>>,
     <<ESC, 99>>, SetRegion, ToRow3, SgrRed, AltOn, OscBel, OscSt,
     IgnoredCsi, SgrMix, SgrReset0, SgrResetEmpty, CSI(<<50, 59, 50>>, 72)}
    \cup {Eacute, Emoji}
    \cup TextThenControl \cup {TextCrLf}

\* The scripts that one read() delivers whole.
WholeScripts ==
    {FourLF, AltOff, MouseOn, MouseOff, RoundTrip}
    \cup Unrecognized
    \cup CharsScripts \cup {OscLong, SgrWide}
    \cup CursorSetters \cup EraseScripts \cup InvalidErase
    \cup {RegionInverted, RegionBeyond, RegionDefault}
    \cup {k.data : k \in PosCases \cup ColCases \cup RegionCases}
    \cup {NoParam(f) : f \in CountFinals} \cup {ParamOne(f) : f \in CountFinals}

Scripts == SplitScripts \cup WholeScripts

\* Sizes a resizeEvent reports.
Sizes == {InitRows - 1, InitRows} \X {InitCols - 1, InitCols}

\* OneTerm after its constructor and before launchShell: no descriptor, no
\* notifier, no child. pc is where the GUI thread is: in the event loop
\* ("idle"), in readFromPty's loop about to call read ("read"), inside
\* waitpid(pid, nullptr, 0) ("waitpid"), or past the destructor ("gone").
\* inflight are the bytes the child wrote that no read has returned yet;
\* written and fed are all bytes the child wrote and feed() was given; last is
\* how the read loop last ended; waits counts the waitpid calls for the pid.
\* pc is "write" inside the loop of safeWriteToPty: wdata is its argument,
\* remain the bytes from buf on, wsent the bytes its write() calls accepted,
\* wlast how the last write() (or the call) ended, calls the number of calls;
\* wfd whether m_ptyMaster was a descriptor when it was called; input is
\* everything the PTY accepted.
NoPty ==
    [launched |-> FALSE, masterFD |-> FALSE, notifier |-> FALSE, shellPid |-> FALSE,
     widgetFD |-> FALSE, pc |-> "idle", child |-> "none", slaveOpen |-> FALSE,
     inflight |-> << >>, written |-> << >>, fed |-> << >>, last |-> "none", waits |-> 0,
     wdata |-> << >>, remain |-> << >>, wsent |-> << >>, wlast |-> "none", calls |-> 0,
     input |-> << >>, wfd |-> FALSE,
     winsize |-> <<0, 0>>, ioctls |-> 0, changes |-> 0, resizes |-> 0]

\* An empty clipboard. at says after how many operations the text was taken.
NoClip == [set |-> FALSE, text |-> << >>, at |-> 0]

NoOp == [kind |-> "none", data |-> << >>, rows |-> 0, cols |-> 0]
FeedOp(data) == [kind |-> "feed", data |-> data, rows |-> 0, cols |-> 0]
ResizeOp(rows, cols) == [kind |-> "resize", data |-> << >>, rows |-> rows, cols |-> cols]

VARIABLES
    widget,    \* the TerminalWidget
    parser,    \* the EscapeSequenceParser bound to it
    alive,     \* FALSE once undefined behaviour has ended the process
    pending,   \* bytes of the observed sequence still in the PTY
    op,        \* the operation last begun (a sequence fed, or a resize)
    start,     \* widget and parser as they were when op began
    split,     \* op's bytes arrived in more than one feed call
    hist,      \* number of operations before the observed one
    final,     \* the observed sequence has begun
    sel,       \* the widget's selection members
    clipboard, \* what copyToClipboard last put on the clipboard
    pty        \* the PTY, the child on its other end, and OneTerm's view of both

vars ==
    <<widget, parser, alive, pending, op, start, split, hist, final, sel, clipboard, pty>>

Now == [w |-> widget, p |-> parser]

Init ==
    /\ widget = NewWidget
    /\ parser = NewParser
    /\ alive = TRUE
    /\ pending = << >>
    /\ op = NoOp
    /\ start = [w |-> NewWidget, p |-> NewParser]
    /\ split = FALSE
    /\ hist = 0
    /\ final = FALSE
    /\ sel = NoSelection
    /\ clipboard = NoClip
    /\ pty = NoPty

\* What a build can do after feed() has read freed storage in oscDispatch: the
\* storage is intact, or holds something else (a title of other bytes, or a
\* string that no longer parses, leaving the title as it was).
Garbage == <<65533>>
Outcomes(s, r) ==
    IF r.w.dangling
    THEN {r, [r EXCEPT !.w.title = s.w.title], [r EXCEPT !.w.title = Garbage]}
    ELSE {r}

\* readFromPty: one read() of data, handed to feed().
Feed(data) ==
    \E n \in Outcomes(Now, feed(Now, data)) :
        /\ widget' = n.w
        /\ parser' = n.p
        /\ alive' = TRUE

\* The same call when its undefined behaviour (a write past m_cells, a read of
\* freed storage, a signed overflow) ends the process instead.
Crash(data) ==
    LET r == feed(Now, data)
    IN /\ r.w.oob \/ r.w.dangling \/ r.w.overflow
       /\ alive' = FALSE
       /\ UNCHANGED <<widget, parser>>

\* The child writes a sequence and one read() delivers it whole.
Write(data) ==
    /\ alive /\ ~final /\ hist < MaxHistory
    /\ Feed(data) \/ Crash(data)
    /\ op' = FeedOp(data)
    /\ start' = Now
    /\ hist' = hist + 1
    /\ UNCHANGED <<pending, split, final, sel, clipboard, pty>>

\* resizeEvent: the window reports a new size.
Resize(rows, cols) ==
    /\ alive /\ ~final /\ hist < MaxHistory
    /\ widget' = setTerminalSize(widget, rows, cols)
    /\ op' = ResizeOp(rows, cols)
    /\ start' = Now
    /\ hist' = hist + 1
    /\ UNCHANGED <<parser, alive, pending, split, final, sel, clipboard, pty>>

\* The child writes the observed sequence; the first read() delivers k bytes.
Begin(script, k) ==
    /\ alive /\ ~final
    /\ Feed(SubSeq(script, 1, k)) \/ Crash(SubSeq(script, 1, k))
    /\ pending' = SubSeq(script, k + 1, Len(script))
    /\ op' = FeedOp(script)
    /\ start' = Now
    /\ split' = FALSE
    /\ final' = TRUE
    /\ UNCHANGED <<hist, sel, clipboard, pty>>

\* A later read() delivers the next k bytes.
Continue(k) ==
    /\ alive /\ final /\ pending # << >>
    /\ Feed(SubSeq(pending, 1, k)) \/ Crash(SubSeq(pending, 1, k))
    /\ pending' = SubSeq(pending, k + 1, Len(pending))
    /\ split' = TRUE
    /\ UNCHANGED <<op, start, hist, final, sel, clipboard, pty>>

Next ==
    \/ \E data \in HistoryData : Write(data)
    \/ \E sz \in Sizes : Resize(sz[1], sz[2])
    \/ \E script \in SplitScripts : \E k \in 1..Len(script) : Begin(script, k)
    \/ \E script \in WholeScripts \ SplitScripts : Begin(script, Len(script))
    \/ \E k \in 1..Len(pending) : Continue(k)

Spec == Init /\ [][Next]_vars

\* ------------------------------------------------------------ the mouse
\* Positions a mouse event reports (pixel position over the cell size, plus the
\* scroll bar's value): from one before the first line/column to one past the last.
MouseLines == (0 - 1)..(ScrollbackMax + InitRows)
MouseCols == (0 - 1)..InitCols

\* mousePressEvent, left button, single click
MousePress(line, col) ==
    /\ alive /\ widget.mouseEnabled /\ ~clipboard.set
    /\ LET p == clampLineCol(widget, line, col)
       IN sel' = [selecting |-> TRUE, hasSelection |-> FALSE,
                  anchorLine |-> p[1], anchorCol |-> p[2],
                  activeLine |-> p[1], activeCol |-> p[2]]
    /\ UNCHANGED <<widget, parser, alive, pending, op, start, split, hist, final, clipboard, pty>>

\* mouseMoveEvent with the left button held
MouseMove(line, col) ==
    /\ alive /\ widget.mouseEnabled /\ sel.selecting /\ ~clipboard.set
    /\ LET p == clampLineCol(widget, line, col)
       IN sel' = [sel EXCEPT !.activeLine = p[1], !.activeCol = p[2]]
    /\ UNCHANGED <<widget, parser, alive, pending, op, start, split, hist, final, clipboard, pty>>

\* mouseReleaseEvent, left button: delivered to the widget that took the press
MouseRelease ==
    /\ alive /\ widget.mouseEnabled /\ sel.selecting /\ ~clipboard.set
    /\ sel' = [sel EXCEPT !.selecting = FALSE, !.hasSelection = TRUE]
    /\ UNCHANGED <<widget, parser, alive, pending, op, start, split, hist, final, clipboard, pty>>

\* The word scan of selectWordAtPosition reads a cell past the row's storage
\* (a scrollback row narrower than the current screen).
WordScanPastRow(cells, cols, col) ==
    \/ col > Len(cells)
    \/ LET e == WordEnd(cells, cols, col) IN e < cols - 1 /\ e + 2 > Len(cells)

\* mousePressEvent of a double click: selectWordAtPosition(row, col). When the
\* scan leaves the row's storage the word's ends are whatever the bytes found
\* there make them, or the process ends.
DoubleClick(line, col) ==
    /\ alive /\ widget.mouseEnabled /\ ~clipboard.set
    /\ LET p == clampLineCol(widget, line, col)
           row == getCellsAtAbsoluteLine(widget, p[1])
           cols == currentBuffer(widget).cols
           word(a, b) == [sel EXCEPT !.anchorLine = p[1], !.anchorCol = a,
                                     !.activeLine = p[1], !.activeCol = b,
                                     !.hasSelection = TRUE]
       IN IF row.null THEN UNCHANGED <<sel, alive>>
          ELSE IF WordScanPastRow(row.cells, cols, p[2])
          THEN \/ /\ alive' = FALSE
                  /\ UNCHANGED sel
               \/ /\ \E a \in 0..p[2] : \E b \in p[2]..(cols - 1) : sel' = word(a, b)
                  /\ UNCHANGED alive
          ELSE /\ sel' = word(WordStart(row.cells, p[2]), WordEnd(row.cells, cols, p[2]))
               /\ UNCHANGED alive
    /\ UNCHANGED <<widget, parser, pending, op, start, split, hist, final, clipboard, pty>>

\* copyToClipboard (Ctrl+Shift+C): selectedText() goes to the clipboard. Text
\* read past a row's storage is whatever is found there, or the process ends.
CopyToClipboard ==
    /\ alive /\ hasSelection(sel) /\ ~clipboard.set
    /\ LET r == selectedText(widget, sel)
           clip(t) == [set |-> TRUE, text |-> t, at |-> hist]
       IN IF r.oob
          THEN \/ /\ alive' = FALSE
                  /\ UNCHANGED clipboard
               \/ /\ clipboard' \in {clip(r.text), clip(Garbage)}
                  /\ UNCHANGED alive
          ELSE /\ clipboard' = clip(r.text)
               /\ UNCHANGED alive
    /\ UNCHANGED <<widget, parser, pending, op, start, split, hist, final, sel, pty>>

\* The terminal under output and resizes, with the user selecting and then
\* copying once: the copy is the last act of the mouse that is observed.
SelNext ==
    \/ \E data \in HistoryData : Write(data)
    \/ \E sz \in Sizes : Resize(sz[1], sz[2])
    \/ \E line \in MouseLines : \E col \in MouseCols : MousePress(line, col)
    \/ \E line \in MouseLines : \E col \in MouseCols : MouseMove(line, col)
    \/ MouseRelease
    \/ \E line \in MouseLines : \E col \in MouseCols : DoubleClick(line, col)
    \/ CopyToClipboard

SelSpec == Init /\ [][SelNext]_vars

\* ------------------------------------------------------------ the PTY
\* What the child writes, one write() at a time, and how many times.
ChildData == {<<88>>, <<LF>>, <<LF, LF, LF>>}
MaxWrites == 2

\* launchShell: openpty, O_NONBLOCK, fork; the parent keeps the master, creates
\* the notifier and hands descriptor and pid to the widget. openpty or fork may
\* fail, and then nothing is attached.
LaunchShell(ok) ==
    /\ alive /\ pty.pc = "idle" /\ ~pty.launched
    /\ pty' = IF ok
              THEN [pty EXCEPT !.launched = TRUE, !.masterFD = TRUE, !.notifier = TRUE,
                               !.shellPid = TRUE, !.widgetFD = TRUE, !.winsize = <<0, 0>>,
                               !.child = "running", !.slaveOpen = TRUE]
              ELSE [pty EXCEPT !.launched = TRUE]
    /\ UNCHANGED <<widget, parser, alive, pending, op, start, split, hist, final, sel, clipboard>>

\* The child writes to its end of the PTY.
ChildWrite(data) ==
    /\ pty.child = "running" /\ pty.slaveOpen
    /\ Len(pty.written) < MaxWrites
    /\ pty' = [pty EXCEPT !.inflight = @ \o data, !.written = @ \o data]
    /\ UNCHANGED <<widget, parser, alive, pending, op, start, split, hist, final, sel, clipboard>>

\* The child closes every descriptor of its end and keeps running.
ChildCloses ==
    /\ pty.child = "running" /\ pty.slaveOpen
    /\ pty' = [pty EXCEPT !.slaveOpen = FALSE]
    /\ UNCHANGED <<widget, parser, alive, pending, op, start, split, hist, final, sel, clipboard>>

\* The child exits: its descriptors close, it stays a zombie until waited for.
ChildExits ==
    /\ pty.child = "running"
    /\ pty' = [pty EXCEPT !.child = "zombie", !.slaveOpen = FALSE]
    /\ UNCHANGED <<widget, parser, alive, pending, op, start, split, hist, final, sel, clipboard>>

\* The notifier fires (the master is readable: bytes, or the other end closed)
\* and readFromPty is entered.
Activated ==
    /\ alive /\ pty.pc = "idle" /\ pty.notifier /\ pty.masterFD
    /\ pty.inflight # << >> \/ ~pty.slaveOpen
    /\ pty' = [pty EXCEPT !.pc = "read"]
    /\ UNCHANGED <<widget, parser, alive, pending, op, start, split, hist, final, sel, clipboard>>

\* read() returns n > 0 bytes: feed(chunk), and round the loop again.
ReadBytes(n) ==
    /\ alive /\ pty.pc = "read" /\ n <= Len(pty.inflight)
    /\ Feed(SubSeq(pty.inflight, 1, n))
    /\ pty' = [pty EXCEPT !.inflight = SubSeq(@, n + 1, Len(@)),
                          !.fed = @ \o SubSeq(pty.inflight, 1, n)]
    /\ UNCHANGED <<pending, op, start, split, hist, final, sel, clipboard>>

\* read() returns 0: waitpid(m_shellPid, nullptr, 0) is called.
ReadEof ==
    /\ alive /\ pty.pc = "read" /\ pty.inflight = << >> /\ ~pty.slaveOpen
    /\ pty' = [pty EXCEPT !.pc = "waitpid", !.last = "eof", !.waits = @ + 1]
    /\ UNCHANGED <<widget, parser, alive, pending, op, start, split, hist, final, sel, clipboard>>

\* waitpid returns once the child has exited; then the notifier is disabled and
\* the loop is left. m_shellPid keeps the pid.
WaitReturns ==
    /\ alive /\ pty.pc = "waitpid" /\ pty.child # "running"
    /\ pty' = [pty EXCEPT !.pc = "idle", !.notifier = FALSE,
                          !.child = IF @ = "zombie" THEN "reaped" ELSE @]
    /\ UNCHANGED <<widget, parser, alive, pending, op, start, split, hist, final, sel, clipboard>>

\* read() fails with EAGAIN (nothing to read) or EINTR (a signal): break.
ReadAgain(err) ==
    /\ alive /\ pty.pc = "read"
    /\ err = "EAGAIN" => (pty.inflight = << >> /\ pty.slaveOpen)
    /\ pty' = [pty EXCEPT !.pc = "idle", !.last = err]
    /\ UNCHANGED <<widget, parser, alive, pending, op, start, split, hist, final, sel, clipboard>>

\* read() fails with another error (EIO once the other end is closed): the
\* notifier is disabled and the loop is left.
ReadError ==
    /\ alive /\ pty.pc = "read" /\ pty.inflight = << >> /\ ~pty.slaveOpen
    /\ pty' = [pty EXCEPT !.pc = "idle", !.last = "error", !.notifier = FALSE]
    /\ UNCHANGED <<widget, parser, alive, pending, op, start, split, hist, final, sel, clipboard>>

\* What the widget hands to safeWriteToPty (a key's bytes, a paste), and how
\* many times.
KeyData == {<< >>, <<CR>>, <<88, 89>>}
MaxKeys == 2

\* safeWriteToPty(data) up to its loop: nothing is done without a descriptor
\* or without data.
SafeWriteToPty(data) ==
    /\ alive /\ pty.pc = "idle" /\ pty.calls < MaxKeys
    /\ pty' = IF ~pty.widgetFD \/ data = << >>
              THEN [pty EXCEPT !.wdata = data, !.remain = << >>, !.wsent = << >>,
                               !.wlast = "nothing", !.calls = @ + 1,
                               !.wfd = pty.widgetFD]
              ELSE [pty EXCEPT !.wdata = data, !.remain = data, !.wsent = << >>,
                               !.wlast = "none", !.calls = @ + 1, !.pc = "write",
                               !.wfd = pty.widgetFD]
    /\ UNCHANGED <<widget, parser, alive, pending, op, start, split, hist, final, sel, clipboard>>

\* buf += n; remain -= n
AdvanceToEnd(remain, n) == << >>
Advance(remain, n) == SubSeq(remain, n + 1, Len(remain))

\* write() accepts the first n > 0 bytes; the loop ends when none remain.
WriteSome(n) ==
    /\ alive /\ pty.pc = "write" /\ pty.masterFD /\ n <= Len(pty.remain)
    /\ pty' = [pty EXCEPT !.remain = Advance(@, n),
                          !.wsent = @ \o SubSeq(pty.remain, 1, n),
                          !.input = @ \o SubSeq(pty.remain, 1, n),
                          !.wlast = "written",
                          !.pc = IF Advance(pty.remain, n) = << >> THEN "idle" ELSE "write"]
    /\ UNCHANGED <<widget, parser, alive, pending, op, start, split, hist, final, sel, clipboard>>

\* write() fails with EAGAIN (the PTY takes no more for now; the master is
\* non-blocking) or EINTR: continue.
WriteAgain(err) ==
    /\ alive /\ pty.pc = "write" /\ pty.masterFD
    /\ pty' = [pty EXCEPT !.wlast = err]
    /\ UNCHANGED <<widget, parser, alive, pending, op, start, split, hist, final, sel, clipboard>>

\* write() fails with another error (EIO once the other end is closed, EBADF
\* on a closed descriptor): a warning, and break.
WriteFails ==
    /\ alive /\ pty.pc = "write" /\ (~pty.slaveOpen \/ ~pty.masterFD)
    /\ pty' = [pty EXCEPT !.wlast = "error", !.pc = "idle"]
    /\ UNCHANGED <<widget, parser, alive, pending, op, start, split, hist, final, sel, clipboard>>

\* ~OneTerm: the notifier is disabled, the master is closed, and the child is
\* waited for with WNOHANG if m_shellPid > 0. The widget keeps its m_ptyMaster.
Destroy ==
    /\ alive /\ pty.pc = "idle" /\ pty.launched
    /\ pty' = [pty EXCEPT !.pc = "gone", !.notifier = FALSE, !.masterFD = FALSE,
                          !.shellPid = FALSE,
                          !.waits = IF pty.shellPid THEN @ + 1 ELSE @,
                          !.child = IF pty.shellPid /\ @ = "zombie" THEN "reaped" ELSE @]
    /\ UNCHANGED <<widget, parser, alive, pending, op, start, split, hist, final, sel, clipboard>>

\* The session of OneTerm with its child.
\* Calls of setTerminalSize in one session.
MaxResizes == 1

\* resizeEvent: setTerminalSize(rows, cols), with its ioctl(m_ptyMaster,
\* TIOCSWINSZ) when the size changed and the widget holds a descriptor.
\* winsize is the window size the kernel holds for the pty, ioctls the
\* TIOCSWINSZ calls issued, changes the size changes made with a pty attached.
SetTerminalSize(rows, cols) ==
    /\ alive /\ pty.pc = "idle" /\ pty.resizes < MaxResizes
    /\ widget' = setTerminalSize(widget, rows, cols)
    /\ LET changed == ~(widget.mainScreen.rows = rows /\ widget.mainScreen.cols = cols)
       IN pty' = [pty EXCEPT !.resizes = @ + 1,
                             !.changes = IF changed /\ pty.widgetFD THEN @ + 1 ELSE @,
                             !.ioctls = IF changed /\ pty.widgetFD THEN @ + 1 ELSE @,
                             !.winsize = IF changed /\ pty.widgetFD THEN <<rows, cols>> ELSE @]
    /\ UNCHANGED <<parser, alive, pending, op, start, split, hist, final, sel, clipboard>>

PtyNext ==
    \/ \E ok \in BOOLEAN : LaunchShell(ok)
    \/ \E sz \in Sizes : SetTerminalSize(sz[1], sz[2])
    \/ \E data \in ChildData : ChildWrite(data)
    \/ ChildCloses
    \/ ChildExits
    \/ Activated
    \/ \E n \in 1..MaxWrites : ReadBytes(n)
    \/ ReadEof
    \/ WaitReturns
    \/ \E err \in {"EAGAIN", "EINTR"} : ReadAgain(err)
    \/ ReadError
    \/ \E data \in KeyData : SafeWriteToPty(data)
    \/ \E n \in 1..Len(pty.remain) : WriteSome(n)
    \/ \E err \in {"EAGAIN", "EINTR"} : WriteAgain(err)
    \/ WriteFails
    \/ Destroy

PtySpec == Init /\ [][PtyNext]_vars

\* ------------------------------------------------ calls of the public API
\* The widget's public methods called directly, as an embedding program or a
\* test does. hist counts the operations of a behaviour, calls included: up to
\* MaxCalls more than the session's history alone may have.
MaxCalls == 2

\* A call of a method with up to two int arguments (a bool is 1 or 0).
CallOp(method, a, b) == [kind |-> method, data |-> << >>, rows |-> a, cols |-> b]

Called(w) ==
    /\ alive /\ hist < MaxHistory + MaxCalls
    /\ widget' = w
    /\ start' = Now
    /\ hist' = hist + 1
    /\ final' = TRUE
    /\ UNCHANGED <<parser, alive, pending, split, sel, clipboard, pty>>

UseAlternateScreen(alt) ==
    /\ Called(useAlternateScreen(widget, alt))
    /\ op' = CallOp("useAlternateScreen", IF alt THEN 1 ELSE 0, 0)

\* scrollUp(top, bottom) and scrollDown(top, bottom) with rows of the current
\* buffer as arguments; top > bottom is the empty region.
ScrollUp(top, bottom) ==
    /\ top < currentBuffer(widget).rows /\ bottom < currentBuffer(widget).rows
    /\ Called(scrollUp(widget, top, bottom))
    /\ op' = CallOp("scrollUp", top, bottom)

ScrollDown(top, bottom) ==
    /\ top < currentBuffer(widget).rows /\ bottom < currentBuffer(widget).rows
    /\ Called(scrollDown(widget, top, bottom))
    /\ op' = CallOp("scrollDown", top, bottom)

\* setSGR(params) for parameter lists with what each must do: fg and bg are
\* the colours it sets (-1: none), set and clear the style bits it sets and
\* clears.
SgrCases ==
    {[params |-> <<1, 4, 7>>, fg |-> 0 - 1, bg |-> 0 - 1, set |-> {1, 2, 4}, clear |-> {}],
     [params |-> <<22, 24, 27>>, fg |-> 0 - 1, bg |-> 0 - 1, set |-> {}, clear |-> {1, 2, 4}],
     [params |-> <<1, 22, 4>>, fg |-> 0 - 1, bg |-> 0 - 1, set |-> {2}, clear |-> {1}],
     [params |-> <<31, 32, 47>>, fg |-> 2, bg |-> 7, set |-> {}, clear |-> {}],
     [params |-> <<30, 40>>, fg |-> 0, bg |-> 0, set |-> {}, clear |-> {}],
     [params |-> <<90, 107>>, fg |-> 8, bg |-> 15, set |-> {}, clear |-> {}],
     [params |-> <<97, 100>>, fg |-> 15, bg |-> 8, set |-> {}, clear |-> {}],
     [params |-> <<38, 5, 1, 4>>, fg |-> 1, bg |-> 0 - 1, set |-> {2}, clear |-> {}],
     [params |-> <<48, 5, 200, 7>>, fg |-> 0 - 1, bg |-> 200, set |-> {4}, clear |-> {}],
     [params |-> <<38, 2, 1>>, fg |-> 0 - 1, bg |-> 0 - 1, set |-> {1}, clear |-> {}],
     [params |-> <<48, 5>>, fg |-> 0 - 1, bg |-> 0 - 1, set |-> {}, clear |-> {}],
     [params |-> <<38>>, fg |-> 0 - 1, bg |-> 0 - 1, set |-> {}, clear |-> {}],
     [params |-> <<5, 99, 2>>, fg |-> 0 - 1, bg |-> 0 - 1, set |-> {}, clear |-> {}]}

\* A setSGR call follows the history and ends the session.
SetSGR(params) ==
    /\ alive /\ ~final
    /\ widget' = setSGR(widget, params)
    /\ op' = [kind |-> "setSGR", data |-> params, rows |-> 0, cols |-> 0]
    /\ start' = Now
    /\ hist' = MaxHistory + MaxCalls
    /\ final' = TRUE
    /\ UNCHANGED <<parser, alive, pending, split, sel, clipboard, pty>>

\* Chunks handed to feed() directly: none, two characters, a whole-screen erase.
ApiChunks == {<< >>, <<88, 88>>, EraseDisplay(<<50>>)}

\* Chunks that reach lineFeed and reverseLineFeed with scrolling, eraseInLine,
\* insertChars, deleteChars and eraseChars.
MutatorChunks ==
    {EraseLine(<<50>>), FourLF, <<ESC, 77>>, ParamOne(64), ParamOne(80), ParamOne(88)}

FeedCall(data) ==
    /\ alive /\ hist < MaxHistory + MaxCalls
    /\ Feed(data) \/ Crash(data)
    /\ op' = FeedOp(data)
    /\ start' = Now
    /\ hist' = hist + 1
    /\ final' = TRUE
    /\ UNCHANGED <<pending, split, sel, clipboard, pty>>

\* feed() of a mutator chunk, right after a switch of the screen.
MutatorCall(data) ==
    /\ op.kind = "useAlternateScreen"
    /\ FeedCall(data)

ApiNext ==
    \/ \E data \in MutatorChunks : MutatorCall(data)
    \/ \E data \in HistoryData : Write(data)
    \/ \E data \in ApiChunks : FeedCall(data)
    \/ \E sz \in Sizes : Resize(sz[1], sz[2])
    \/ \E alt \in BOOLEAN : UseAlternateScreen(alt)
    \/ \E k \in SgrCases : SetSGR(k.params)
    \/ \E top, bottom \in 0..(InitRows - 1) : ScrollUp(top, bottom)
    \/ \E top, bottom \in 0..(InitRows - 1) : ScrollDown(top, bottom)

ApiSpec == Init /\ [][ApiNext]_vars

\* ------------------------------------------------------------ properties
\* The ScreenModel part of a widget: grids, cursor, attributes, scrolling
\* region, scrollback, alternate flag.
ScreenModel(w) ==
    [mainScreen |-> w.mainScreen, alternateScreen |-> w.alternateScreen,
     scrollbackBuffer |-> w.scrollbackBuffer, inAlternateScreen |-> w.inAlternateScreen,
     cursorRow |-> w.cursorRow, cursorCol |-> w.cursorCol,
     savedCursorRow |-> w.savedCursorRow, savedCursorCol |-> w.savedCursorCol,
     currentFg |-> w.currentFg, currentBg |-> w.currentBg,
     currentStyle |-> w.currentStyle,
     scrollRegionTop |-> w.scrollRegionTop, scrollRegionBottom |-> w.scrollRegionBottom]

\* The operation last begun has been carried out in full by a live process.
Completed == alive /\ pending = << >>
Fed(data) == Completed /\ op = FeedOp(data)

\* Row r of a buffer, as the sequence of its cells.
RowOf(buf, r) == [c \in 1..buf.cols |-> buf.cells[CellIndex(buf, r, c - 1)]]
InGrid(buf, r, c) == r >= 0 /\ r < buf.rows /\ c >= 0 /\ c < buf.cols
At(buf, r, c) == buf.cells[CellIndex(buf, r, c)]
FullRegion(w) ==
    w.scrollRegionTop = 0 /\ w.scrollRegionBottom = currentBuffer(w).rows - 1

\* C1: in every reachable state the cursor satisfies 0 <= row <= rows-1 and
\* 0 <= col <= cols-1 of the current buffer.
C1_CursorInBounds ==
    /\ 0 <= widget.cursorRow /\ widget.cursorRow <= currentBuffer(widget).rows - 1
    /\ 0 <= widget.cursorCol /\ widget.cursorCol <= currentBuffer(widget).cols - 1

\* C2: chunk-boundary invariance. Once every byte of an escape sequence has been
\* fed, in however many feed calls, the ScreenModel and the decoder are what one
\* feed call of the whole sequence makes of the state the sequence began in.
C2_ChunkInvariance ==
    (Completed /\ op.kind = "feed" /\ Head(op.data) = ESC) =>
        LET one == feed(start, op.data)
        IN ScreenModel(widget) = ScreenModel(one.w) /\ parser = one.p

\* C2 witness: ESC[31m arrived in more than one feed call and set the foreground.
C2_Witness ==
    Fed(SgrRed) /\ split /\ start.w.currentFg = 7 /\ widget.currentFg = 1

\* C3: alternate-screen round trip. After ESC[?1049h, bytes, ESC[?1049l, every
\* primary cell and the cursor are as before ESC[?1049h and scrollback is unchanged.
C3_AltRoundTrip ==
    (Fed(RoundTrip) /\ ~start.w.inAlternateScreen /\ start.p.state = "Ground") =>
        /\ widget.mainScreen = start.w.mainScreen
        /\ widget.cursorRow = start.w.cursorRow
        /\ widget.cursorCol = start.w.cursorCol
        /\ widget.scrollbackBuffer = start.w.scrollbackBuffer

\* C4: private-mode h and l are dispatched. ESC[?1049h makes the alternate
\* screen current and saves the cursor, ESC[?1049l makes the primary current and
\* restores the cursor, ESC[?1000h enables and ESC[?1000l disables mouse reporting.
C4_PrivateModes ==
    /\ Fed(AltOn) =>
          /\ widget.inAlternateScreen
          /\ widget.savedCursorRow = start.w.cursorRow
          /\ widget.savedCursorCol = start.w.cursorCol
    /\ Fed(AltOff) =>
          /\ ~widget.inAlternateScreen
          /\ widget.cursorRow = Clamp(start.w.savedCursorRow, 0, currentBuffer(widget).rows - 1)
    /\ Fed(MouseOn) => widget.mouseEnabled
    /\ Fed(MouseOff) => ~widget.mouseEnabled

\* C5: a line feed on the region's bottom row calls scrollUp(top, bottom); the
\* vacated top row is pushed into scrollback only when the primary screen is
\* current and the region is the full screen, otherwise scrollback is unchanged.
C5_ScrollbackOnlyFullPrimary ==
    (Fed(<<LF>>) /\ start.w.cursorRow >= start.w.scrollRegionBottom) =>
        IF ~start.w.inAlternateScreen /\ FullRegion(start.w)
        THEN widget.scrollbackBuffer =
                PushScrollback(start.w.scrollbackBuffer,
                               RowOf(start.w.mainScreen, start.w.scrollRegionTop))
        ELSE widget.scrollbackBuffer = start.w.scrollbackBuffer

\* the last n elements of a sequence
LastN(seq, n) == SubSeq(seq, Len(seq) - n + 1, Len(seq))

\* C6: scrollback bound. The scrollback never holds more than ScrollbackMax rows
\* and holds exactly the most recent min(totalScrolled, ScrollbackMax) rows that
\* scrollUp evicted, oldest first.
C6_ScrollbackBound ==
    /\ Len(widget.scrollbackBuffer) <= ScrollbackMax
    /\ widget.scrollbackBuffer =
          LastN(widget.pushed, Min(Len(widget.pushed), ScrollbackMax))

\* C6 witness: more rows were evicted than the scrollback holds, and the oldest
\* (dropped) row differs from the newest one.
C6_Witness ==
    /\ alive
    /\ Len(widget.pushed) > ScrollbackMax
    /\ widget.pushed[1] # widget.pushed[Len(widget.pushed)]

\* rows [top+1, bottom] of old are rows [top, bottom-1] of new, row bottom of
\* new is blank, every other row is unchanged
ShiftedUp(old, new, top, bottom, blank) ==
    /\ new.rows = old.rows /\ new.cols = old.cols
    /\ \A r \in 0..(old.rows - 1) :
          RowOf(new, r) = IF r >= top /\ r < bottom THEN RowOf(old, r + 1)
                          ELSE IF r = bottom THEN [c \in 1..old.cols |-> blank]
                          ELSE RowOf(old, r)

ShiftedDown(old, new, top, bottom, blank) ==
    /\ new.rows = old.rows /\ new.cols = old.cols
    /\ \A r \in 0..(old.rows - 1) :
          RowOf(new, r) = IF r > top /\ r <= bottom THEN RowOf(old, r - 1)
                          ELSE IF r = top THEN [c \in 1..old.cols |-> blank]
                          ELSE RowOf(old, r)

\* C7: lineFeed moves the cursor down one row and changes no cell and no
\* scrollback, unless the cursor is on the region's bottom row: then exactly the
\* region scrolls up and the cursor stays. reverseLineFeed mirrors it at the top
\* row. A cursor outside the region never scrolls it and is never pulled into it.
C7_LineFeedWithinRegion ==
    LET s == start.w
        rows == currentBuffer(s).rows
        blank == makeCellForCurrentAttr(s)
    IN /\ (Fed(<<LF>>) /\ s.cursorRow < rows) =>
             IF s.cursorRow = s.scrollRegionBottom
             THEN /\ ShiftedUp(currentBuffer(s), currentBuffer(widget),
                               s.scrollRegionTop, s.scrollRegionBottom, blank)
                  /\ widget.cursorRow = s.cursorRow
             ELSE /\ widget.cursorRow = Min(s.cursorRow + 1, rows - 1)
                  /\ currentBuffer(widget) = currentBuffer(s)
                  /\ widget.scrollbackBuffer = s.scrollbackBuffer
       /\ (Fed(<<ESC, 77>>) /\ s.cursorRow < rows) =>
             IF s.cursorRow = s.scrollRegionTop
             THEN /\ ShiftedDown(currentBuffer(s), currentBuffer(widget),
                                 s.scrollRegionTop, s.scrollRegionBottom, blank)
                  /\ widget.cursorRow = s.cursorRow
             ELSE /\ widget.cursorRow = Max(s.cursorRow - 1, 0)
                  /\ currentBuffer(widget) = currentBuffer(s)
                  /\ widget.scrollbackBuffer = s.scrollbackBuffer

\* C8: CSI A, B, C, D, @, P and X with no parameter act as with parameter 1.
C8_MissingCountIsOne ==
    \A f \in CountFinals :
        Fed(NoParam(f)) =>
            ScreenModel(widget) = ScreenModel(feed(start, ParamOne(f)).w)

\* the scenario's starting state: primary screen of 3 rows, region [0,2],
\* cursor on row 0, empty scrollback
ThreeRowsAtTop(w) ==
    /\ ~w.inAlternateScreen /\ w.mainScreen.rows = 3
    /\ w.scrollRegionTop = 0 /\ w.scrollRegionBottom = 2
    /\ w.cursorRow = 0 /\ w.scrollbackBuffer = << >>

\* C9 as claimed: from that state four LF bytes leave exactly one row in
\* scrollback and the cursor on row 2.
C9_FourLinefeedsOneRow ==
    (Fed(FourLF) /\ ThreeRowsAtTop(start.w) /\ start.p.state = "Ground") =>
        Len(widget.scrollbackBuffer) = 1 /\ widget.cursorRow = 2

\* C9 amended: from that state four LF bytes leave exactly two rows in
\* scrollback (the third and the fourth LF each scroll) and the cursor on row 2.
C9_FourLinefeedsTwoRows ==
    (Fed(FourLF) /\ ThreeRowsAtTop(start.w) /\ start.p.state = "Ground") =>
        Len(widget.scrollbackBuffer) = 2 /\ widget.cursorRow = 2

\* C9 witness: the four LF bytes have been fed from the scenario's state.
C9_Witness ==
    Fed(FourLF) /\ ThreeRowsAtTop(start.w) /\ start.p.state = "Ground"
        /\ widget.cursorRow = 2

\* after a resize from old to new: the overlapping top-left rectangle is kept,
\* every other cell is blank
ResizedFrom(old, new, blank) ==
    \A r \in 0..(new.rows - 1) : \A c \in 0..(new.cols - 1) :
        At(new, r, c) = IF InGrid(old, r, c) THEN At(old, r, c) ELSE blank

\* C10: setTerminalSize(rows, cols) preserves the overlapping rectangle and
\* blanks the rest with the current attributes, in both buffers.
C10_ResizePreserves ==
    (alive /\ op.kind = "resize") =>
        /\ widget.mainScreen.rows = op.rows /\ widget.mainScreen.cols = op.cols
        /\ widget.alternateScreen.rows = op.rows /\ widget.alternateScreen.cols = op.cols
        /\ ResizedFrom(start.w.mainScreen, widget.mainScreen, makeCellForCurrentAttr(widget))
        /\ ResizedFrom(start.w.alternateScreen, widget.alternateScreen,
                       makeCellForCurrentAttr(widget))

\* C11: after setTerminalSize(rows, cols) returns, the cursor satisfies
\* 0 <= row < rows and 0 <= col < cols and the scrolling region satisfies
\* 0 <= top <= bottom <= rows - 1, whatever the cursor and the region were before.
C11_ResizeReclamps ==
    (alive /\ op.kind = "resize") =>
        /\ 0 <= widget.cursorRow /\ widget.cursorRow < op.rows
        /\ 0 <= widget.cursorCol /\ widget.cursorCol < op.cols
        /\ 0 <= widget.scrollRegionTop
        /\ widget.scrollRegionTop <= widget.scrollRegionBottom
        /\ widget.scrollRegionBottom <= op.rows - 1

\* the characters of absolute line l (scrollback first, then the screen's rows)
LineChars(w, l) ==
    LET sb == w.scrollbackBuffer
    IN IF l < Len(sb) THEN [c \in 1..Len(sb[l + 1]) |-> sb[l + 1][c].ch]
       ELSE [c \in 1..currentBuffer(w).cols |-> RowOf(currentBuffer(w), l - Len(sb))[c].ch]

\* the selection lies on lines that exist, each as wide as the screen
OnExistingLines(w, s) ==
    /\ \A l \in Min(s.anchorLine, s.activeLine)..Max(s.anchorLine, s.activeLine) :
          /\ l >= 0 /\ l < Len(w.scrollbackBuffer) + currentBuffer(w).rows
          /\ Len(LineChars(w, l)) = currentBuffer(w).cols
    /\ s.anchorCol \in 0..(currentBuffer(w).cols - 1)
    /\ s.activeCol \in 0..(currentBuffer(w).cols - 1)

RECURSIVE JoinedLines(_, _, _, _, _)
\* lines l..last, newline-joined: the first from column a, the last through
\* column b, the others whole
JoinedLines(w, l, last, a, b) ==
    LET chars == LineChars(w, l)
    IN IF l = last THEN SubSeq(chars, a + 1, b + 1)
       ELSE SubSeq(chars, a + 1, Len(chars)) \o <<LF>> \o JoinedLines(w, l + 1, last, 0, b)

\* the text of a selection: from its start point to its end point
SelectionText(w, s) ==
    IF s.anchorLine = s.activeLine
    THEN JoinedLines(w, s.anchorLine, s.anchorLine,
                     Min(s.anchorCol, s.activeCol), Max(s.anchorCol, s.activeCol))
    ELSE IF s.anchorLine < s.activeLine
    THEN JoinedLines(w, s.anchorLine, s.activeLine, s.anchorCol, s.activeCol)
    ELSE JoinedLines(w, s.activeLine, s.anchorLine, s.activeCol, s.anchorCol)

\* C12: selectedText returns the newline-joined characters of every line from
\* min(lineA, lineB) to max(lineA, lineB): the first line from the selection's
\* start column, the last through its end column, interior lines whole; within
\* one line, columns min(a, b)..max(a, b).
C12_SelectedText ==
    (alive /\ clipboard.set /\ clipboard.at = hist /\ OnExistingLines(widget, sel)) =>
        clipboard.text = SelectionText(widget, sel)

\* C13: a read of 0 bytes reaps the child without blocking on a child that has
\* not exited, and disables further reads; EAGAIN / EINTR end the loop with
\* reads enabled; any other error disables reads; every byte read so far has
\* been fed to the decoder, in order.
C13_EndOfFile ==
    /\ ~(pty.pc = "waitpid" /\ pty.child = "running")
    /\ (pty.pc = "idle" /\ pty.last \in {"eof", "error"}) => ~pty.notifier
    /\ (pty.pc = "idle" /\ pty.last \in {"EAGAIN", "EINTR"}) => pty.notifier
    /\ pty.fed \o pty.inflight = pty.written
    /\ (pty.last \in {"eof", "error"} /\ pty.pc # "read") => pty.fed = pty.written

CsiStates == {"CsiEntry", "CsiParam", "CsiIntermediate", "CsiIgnore"}

C15_UnrecognizedDiscarded ==
    (op.kind = "feed" /\ op.data \in Unrecognized /\ pending = << >>
        /\ start.p.state = "Ground" /\ start.p.textBuffer = << >>) =>
        /\ alive
        /\ ScreenModel(widget) = ScreenModel(start.w)
        /\ parser.state = "Ground"

\* 0 <= top <= bottom <= rows - 1 of the current buffer
ValidRegion(w) ==
    /\ 0 <= w.scrollRegionTop
    /\ w.scrollRegionTop <= w.scrollRegionBottom
    /\ w.scrollRegionBottom <= currentBuffer(w).rows - 1

\* arguments of a direct setScrollingRegion call: below, within and beyond the rows
RegionArgs == (0 - 2)..(InitRows + 1)

\* C16: in every reachable state the scrolling region satisfies
\* 0 <= top <= bottom <= rows - 1 of the current buffer, and it does so after
\* setScrollingRegion with any arguments, after useAlternateScreen, after
\* fullReset and after setTerminalSize, called in that state.
C16_RegionInvariant ==
    /\ ValidRegion(widget)
    /\ \A top \in RegionArgs : \A bottom \in RegionArgs :
          ValidRegion(setScrollingRegion(widget, top, bottom))
    /\ \A alt \in BOOLEAN : ValidRegion(useAlternateScreen(widget, alt))
    /\ ValidRegion(fullReset(widget))
    /\ \A sz \in Sizes : ValidRegion(setTerminalSize(widget, sz[1], sz[2]))

\* C16 witness: ESC [ 2 ; 1 r, with inverted bounds, set the region to rows 0..1
\* of a screen that had the full region.
C16_Witness ==
    /\ Fed(RegionInverted) /\ FullRegion(start.w)
    /\ currentBuffer(widget).rows = InitRows
    /\ widget.scrollRegionTop = 0 /\ widget.scrollRegionBottom = 1

\* C17: every cursor-setting operation of the decoder (CSI A, B, C, D, G, H, f,
\* the controls BS, HT, CR, and ESC 8) leaves the cursor with 0 <= row < rows
\* and 0 <= col < cols, for every parameter value and from any prior cursor state.
C17_CursorSettersClamp ==
    (Completed /\ op.kind = "feed" /\ op.data \in CursorSetters
        /\ start.p.state = "Ground") =>
        /\ 0 <= widget.cursorRow /\ widget.cursorRow < currentBuffer(widget).rows
        /\ 0 <= widget.cursorCol /\ widget.cursorCol < currentBuffer(widget).cols

\* buffer new is buffer old with cell c at (row, col) and no other change
OneCellWritten(old, new, row, col, c) ==
    /\ InGrid(old, row, col)
    /\ new = [old EXCEPT !.cells[CellIndex(old, row, col)] = c]

ModeOf(m) == IF m = << >> THEN 0 ELSE m[1] - 48

\* The cells of row r the mode names, for a cursor at column col.
InLineRange(mode, col, c) ==
    IF mode = 0 THEN c >= col ELSE IF mode = 1 THEN c <= col ELSE TRUE

\* The cells of the screen the mode names, for a cursor at (row, col).
InDisplayRange(mode, row, col, r, c) ==
    IF mode = 0 THEN r > row \/ (r = row /\ c >= col)
    ELSE IF mode = 1 THEN r < row \/ (r = row /\ c <= col)
    ELSE TRUE

\* The screen after the erase (of the line, or of the display) is the screen
\* before it with the cells the mode names blanked with the attributes then
\* current; cursor and scrollback are as before, and nothing outside the grid
\* was written.
ErasedExactly(display, mode) ==
    LET s == start.w
        old == currentBuffer(s)
        new == currentBuffer(widget)
        blank == [ch |-> 32, fg |-> s.currentFg, bg |-> s.currentBg,
                  style |-> s.currentStyle]
        InRange(r, c) ==
            IF display THEN InDisplayRange(mode, s.cursorRow, s.cursorCol, r, c)
            ELSE r = s.cursorRow /\ InLineRange(mode, s.cursorCol, c)
    IN /\ alive /\ ~widget.oob
       /\ new.rows = old.rows /\ new.cols = old.cols
       /\ \A r \in 0..(old.rows - 1) : \A c \in 0..(old.cols - 1) :
              At(new, r, c) = IF InRange(r, c) THEN blank ELSE At(old, r, c)
       /\ widget.cursorRow = s.cursorRow /\ widget.cursorCol = s.cursorCol
       /\ widget.scrollbackBuffer = s.scrollbackBuffer

\* C19: eraseInLine and eraseInDisplay blank, with a space carrying the current
\* fg/bg/style, exactly the cells their mode names: 0 from the cursor cell to
\* the end of the line/screen, 1 from the start through the cursor cell, 2 the
\* whole line/screen. Every other cell, the cursor and the scrollback are
\* unchanged, from any reachable cursor state.
C19_EraseModes ==
    \A m \in ModeParams :
        /\ (Fed(EraseLine(m)) /\ start.p.state = "Ground") =>
               ErasedExactly(FALSE, ModeOf(m))
        /\ (Fed(EraseDisplay(m)) /\ start.p.state = "Ground") =>
               ErasedExactly(TRUE, ModeOf(m))

\* C20: whatever CSI m sequences came before (256-colour and unknown codes
\* included), after ESC [ 0 m or ESC [ m the current foreground is 7, the
\* background 0 and the style empty.
C20_SgrReset ==
    (Fed(SgrReset0) \/ Fed(SgrResetEmpty)) =>
        /\ widget.currentFg = 7
        /\ widget.currentBg = 0
        /\ widget.currentStyle = 0

\* C20 witness: the reset arrived with bold set and both colours from the
\* 256-colour palette.
C20_Witness ==
    /\ Fed(SgrResetEmpty)
    /\ start.w.currentFg = 200 /\ start.w.currentBg = 17
    /\ start.w.currentStyle = Bold
    /\ widget.currentFg = 7 /\ widget.currentBg = 0 /\ widget.currentStyle = 0

\* C21: useAlternateScreen(b) changes nothing when the widget is already in
\* state b. useAlternateScreen(true) from the primary screen makes the
\* alternate buffer current, with the primary's rows and cols and every cell a
\* blank, and leaves the primary's cells and the scrollback as they were;
\* useAlternateScreen(false) makes the primary current with its cells unchanged.
C21_UseAlternateScreen ==
    op.kind = "useAlternateScreen" =>
        LET s == start.w
            alt == op.rows = 1
            new == currentBuffer(widget)
        IN /\ s.inAlternateScreen = alt => widget = s
           /\ (~s.inAlternateScreen /\ alt) =>
                  /\ widget.inAlternateScreen
                  /\ new = widget.alternateScreen
                  /\ new.rows = s.mainScreen.rows /\ new.cols = s.mainScreen.cols
                  /\ Len(new.cells) = new.rows * new.cols
                  /\ \A i \in 1..Len(new.cells) : new.cells[i] = makeCellForCurrentAttr(s)
                  /\ widget.mainScreen = s.mainScreen
                  /\ widget.scrollbackBuffer = s.scrollbackBuffer
           /\ (s.inAlternateScreen /\ ~alt) =>
                  /\ ~widget.inAlternateScreen
                  /\ new = s.mainScreen
                  /\ widget.scrollbackBuffer = s.scrollbackBuffer

\* C21 witness: the alternate screen was entered from a primary screen that
\* shows an X, with a colour set, and scrollback.
C21_Witness ==
    /\ op = CallOp("useAlternateScreen", 1, 0)
    /\ ~start.w.inAlternateScreen /\ widget.inAlternateScreen
    /\ \E i \in 1..Len(start.w.mainScreen.cells) : start.w.mainScreen.cells[i].ch = 88
    /\ start.w.currentFg = 1
    /\ widget.alternateScreen.cells[1] = [ch |-> 32, fg |-> 1, bg |-> 0, style |-> 0]

\* C21 witness: the primary screen was returned to from the alternate one.
C21_WitnessBack ==
    /\ op = CallOp("useAlternateScreen", 0, 0)
    /\ start.w.inAlternateScreen /\ ~widget.inAlternateScreen

\* C22: tearing the session down disables the read path (the notifier) and
\* the write path (the descriptor safeWriteToPty uses) before the master is
\* closed: once the master of a launched session is closed neither is enabled,
\* no read() or write() is issued on the closed descriptor, and the teardown
\* waits for the child without blocking.
C22_Teardown ==
    /\ (pty.launched /\ ~pty.masterFD) => (~pty.notifier /\ ~pty.widgetFD)
    /\ pty.pc \in {"read", "write"} => pty.masterFD
    /\ pty.pc = "gone" => ~pty.masterFD

\* C23: safeWriteToPty delivers the bytes of its argument in order, none lost
\* and none twice, whatever the sizes of the partial writes; EAGAIN and EINTR
\* leave it in its loop with nothing advanced; it returns only with every byte
\* written, or after another error with a prefix written; without a descriptor
\* or without data it writes nothing.
C23_WriteAll ==
    /\ pty.wlast # "nothing" => pty.wsent \o pty.remain = pty.wdata
    /\ LastN(pty.input, Len(pty.wsent)) = pty.wsent
    /\ pty.wlast \in {"EAGAIN", "EINTR", "none"} /\ pty.calls > 0 => pty.pc = "write"
    /\ pty.pc = "write" => pty.remain # << >>
    /\ (pty.pc # "write" /\ pty.wlast = "written") => pty.wsent = pty.wdata
    /\ (pty.pc # "write" /\ pty.calls > 0) => pty.wlast \in {"written", "error", "nothing"}
    /\ (pty.calls > 0 /\ (~pty.wfd \/ pty.wdata = << >>)) =>
           (pty.wlast = "nothing" /\ pty.wsent = << >>)
    /\ pty.wlast = "nothing" => (~pty.wfd \/ pty.wdata = << >>)

\* C23 witness: of the two bytes X Y the first write() took one, and the next
\* failed with EAGAIN.
C23_Witness ==
    /\ pty.pc = "write" /\ pty.wlast = "EAGAIN"
    /\ pty.wdata = <<88, 89>> /\ pty.wsent = <<88>> /\ pty.remain = <<89>>

\* The cells of the current buffer that differ between two widgets of one size.
ChangedCells(old, new) ==
    {i \in 1..Len(currentBuffer(old).cells) :
        currentBuffer(old).cells[i] # currentBuffer(new).cells[i]}

C24_WitnessEmpty ==
    /\ alive /\ op = FeedOp(<< >>) /\ hist > 1 /\ widget.updates = 1

\* What getCellsAtAbsoluteLine must return for line i: the scrollback row i
\* (the oldest is row 0), the row i - S of the current screen, or no row.
IsAbsoluteLine(w, i) ==
    LET S == Len(w.scrollbackBuffer)
        buf == currentBuffer(w)
        r == getCellsAtAbsoluteLine(w, i)
    IN IF i >= 0 /\ i < S
       THEN ~r.null /\ r.cells = w.scrollbackBuffer[i + 1]
       ELSE IF i >= S /\ i < S + buf.rows
       THEN ~r.null /\ SubSeq(r.cells, 1, buf.cols) = RowOf(buf, i - S)
       ELSE r.null

\* C25: getCellsAtAbsoluteLine(i) with scrollback length S returns scrollback
\* row i for 0 <= i < S, row i - S of the current screen for S <= i < S + rows,
\* and no row for any other i, negative i included.
C25_AbsoluteLine ==
    alive => \A i \in (0 - 2)..(ScrollbackMax + InitRows + 1) : IsAbsoluteLine(widget, i)

\* C26: a multi-byte UTF-8 character is never split by a flush. Its bytes fed
\* in two or more feed calls write the same cells as the bytes fed in one call,
\* and a character outside the BMP (a surrogate pair once decoded) is given to
\* putChar once: at most one cell changes.
C26_Utf8NotSplit ==
    (Completed /\ op.kind = "feed" /\ op.data \in {Eacute, Emoji}) =>
        /\ ScreenModel(widget) = ScreenModel(feed(start, op.data).w)
        /\ (op.data = Emoji /\ ~split) => Cardinality(ChangedCells(start.w, widget)) <= 1

\* C27: an erase with an invalid mode is a no-op: CSI J and CSI K with a mode
\* other than 0, 1 or 2 change no cell of the current buffer.
C27_InvalidEraseNoOp ==
    (Completed /\ op.kind = "feed" /\ op.data \in InvalidErase) =>
        currentBuffer(widget).cells = currentBuffer(start.w).cells

\* C28: scrollUp(top, bottom) with 0 <= top <= bottom < rows moves each row of
\* [top+1, bottom] up by one, fills row bottom with blanks carrying the current
\* attributes and leaves the rows outside [top, bottom] and the cursor
\* unchanged. scrollDown(top, bottom) moves each row of [top, bottom-1] down by
\* one, blanks row top, leaves the rows outside the region unchanged and never
\* changes the scrollback.
C28_ScrollFrame ==
    LET s == start.w
        old == currentBuffer(s)
        new == currentBuffer(widget)
        top == op.rows
        bottom == op.cols
    IN /\ (op.kind = "scrollUp" /\ top <= bottom) =>
              /\ ShiftedUp(old, new, top, bottom, makeCellForCurrentAttr(s))
              /\ widget.cursorRow = s.cursorRow /\ widget.cursorCol = s.cursorCol
       /\ (op.kind = "scrollDown" /\ top <= bottom) =>
              /\ ShiftedDown(old, new, top, bottom, makeCellForCurrentAttr(s))
              /\ widget.cursorRow = s.cursorRow /\ widget.cursorCol = s.cursorCol
       /\ op.kind = "scrollDown" =>
              /\ widget.scrollbackBuffer = s.scrollbackBuffer
              /\ widget.pushed = s.pushed

\* C28 witness: scrollDown(0, 1) took the X of row 0 to row 1 while row 2, which
\* differs from a blank, stayed.
C28_Witness ==
    /\ op = CallOp("scrollDown", 0, 1)
    /\ currentBuffer(start.w).rows = 3
    /\ At(currentBuffer(start.w), 0, 0).ch = 88
    /\ At(currentBuffer(widget), 1, 0).ch = 88
    /\ At(currentBuffer(widget), 0, 0).ch = 32
    /\ At(currentBuffer(widget), 2, 0) = At(currentBuffer(start.w), 2, 0)

\* C28 witness: scrollUp(1, 2) kept row 0 and its X.
C28_WitnessUp ==
    /\ op = CallOp("scrollUp", 1, 2)
    /\ At(currentBuffer(start.w), 0, 0).ch = 88
    /\ At(currentBuffer(widget), 0, 0).ch = 88
    /\ At(currentBuffer(widget), 2, 0).ch = 32

\* A 1-based wire parameter (a zero counts as 1) as a 0-based index of 0..n-1.
Converted(v, n) == Clamp((IF v = 0 THEN 1 ELSE v) - 1, 0, n - 1)

\* C29: row and column parameters are converted from 1-based to 0-based and
\* clamped to the current buffer. CSI r ; c H (or f) puts the cursor at the
\* converted row and column, a missing or zero parameter counting as 1; CSI c G
\* sets the converted column and keeps the row; CSI t ; b r sets the scrolling
\* region to the converted bounds, swapped when top > bottom.
C29_OneBasedClamped ==
    LET rows == currentBuffer(start.w).rows
        cols == currentBuffer(start.w).cols
    IN /\ \A k \in PosCases : Fed(k.data) =>
              /\ widget.cursorRow = Converted(k.r, rows)
              /\ widget.cursorCol = Converted(k.c, cols)
       /\ \A k \in ColCases : Fed(k.data) =>
              /\ widget.cursorCol = Converted(k.c, cols)
              /\ widget.cursorRow = start.w.cursorRow
       /\ \A k \in RegionCases : Fed(k.data) =>
              /\ widget.scrollRegionTop = Min(Converted(k.t, rows), Converted(k.b, rows))
              /\ widget.scrollRegionBottom = Max(Converted(k.t, rows), Converted(k.b, rows))

\* C29 witness: ESC [ 2 ; 2 H, split over two reads, moved the cursor from
\* elsewhere to row 1, column 1.
C29_Witness ==
    /\ Fed(CSI(<<50, 59, 50>>, 72)) /\ split
    /\ start.w.cursorRow = 2 /\ start.w.cursorCol = 0
    /\ widget.cursorRow = 1 /\ widget.cursorCol = 1

\* A fresh widget and decoder with screens of the given size.
Fresh(rows, cols) ==
    [w |-> [NewWidget EXCEPT !.mainScreen = NewScreenBuffer(rows, cols),
                             !.alternateScreen = NewScreenBuffer(rows, cols),
                             !.scrollRegionBottom = rows - 1],
     p |-> NewParser]

\* "Hello\r\n" fed to a fresh 24x80 widget: Hello in row 0, columns 0-4, with
\* the default attributes, no other cell touched, the cursor at (1, 0).
HelloScenario ==
    LET hello == <<72, 101, 108, 108, 111>>
        r == feed(Fresh(24, 80), hello \o <<CR, LF>>)
        buf == currentBuffer(r.w)
    IN /\ \A c \in 0..4 : At(buf, 0, c) = [ch |-> hello[c + 1], fg |-> 7, bg |-> 0, style |-> 0]
       /\ \A i \in 6..Len(buf.cells) : buf.cells[i] = NulCell
       /\ r.w.cursorRow = 1 /\ r.w.cursorCol = 0
       /\ r.w.scrollbackBuffer = << >>

\* C30: in Ground a control byte acts in byte-stream order: the text before it
\* (or before an ESC) is written first. CR sets the column to 0 and keeps the
\* row, LF performs lineFeed and keeps the column, BS moves one column left and
\* stops at 0, HT moves to the next multiple of 8, at most cols - 1. So
\* "Hello\r\n" on a fresh 24x80 widget leaves Hello in row 0 and the cursor at (1, 0).
C30_ControlsInOrder ==
    LET s == start.w
        cols == currentBuffer(s).cols
    IN /\ Fed(<<CR>>) => (widget.cursorCol = 0 /\ widget.cursorRow = s.cursorRow)
       /\ Fed(<<LF>>) => /\ widget.cursorCol = s.cursorCol
                         /\ widget.cursorRow = lineFeed(s).cursorRow
                         /\ currentBuffer(widget) = currentBuffer(lineFeed(s))
       /\ Fed(<<BS>>) => /\ widget.cursorCol = Max(s.cursorCol - 1, 0)
                         /\ widget.cursorRow = s.cursorRow
       /\ Fed(<<HT>>) => /\ widget.cursorCol = Min(((s.cursorCol \div 8) + 1) * 8, cols - 1)
                         /\ widget.cursorRow = s.cursorRow
       /\ \A t \in TextThenControl : Fed(t) =>
              ScreenModel(widget) = ScreenModel(feed(feed(start, <<88>>), Tail(t)).w)
       /\ Fed(TextCrLf) =>
              ScreenModel(widget) = ScreenModel(feed(feed(start, <<88>>), <<CR, LF>>).w)
       /\ op = NoOp => HelloScenario

CellRow(buf, i) == (i - 1) \div buf.cols
CellCol(buf, i) == (i - 1) % buf.cols

\* The columns insertChars (64), deleteChars (80) and eraseChars (88) vacate
\* with count n and the cursor at column col of a row of cols cells.
Vacated(f, n, col, cols) ==
    IF f = 80 THEN {c \in 0..(cols - 1) : c >= col /\ c >= cols - n}
    ELSE {c \in 0..(cols - 1) : c >= col /\ c < col + n}

\* C32: insertChars(n), deleteChars(n) and eraseChars(n), for any n >= 1
\* (n above the column count included) and from any reachable cursor state,
\* change only cells of the cursor row at columns at or right of the cursor
\* column, leave the cursor where it was and fill the vacated cells with
\* blanks carrying the current attributes; with n < 1 they change nothing.
C32_CharsInRow ==
    /\ \A f \in CharsFinals : \A n \in 1..3 :
           (Fed(CSI(<<48 + n>>, f)) /\ start.p.state = "Ground") =>
               LET old == currentBuffer(start.w)
               IN /\ ~widget.oob
                  /\ widget.cursorRow = start.w.cursorRow
                  /\ widget.cursorCol = start.w.cursorCol
                  /\ \A i \in ChangedCells(start.w, widget) :
                         /\ CellRow(old, i) = start.w.cursorRow
                         /\ CellCol(old, i) >= start.w.cursorCol
                  /\ (start.w.cursorRow >= 0 /\ start.w.cursorRow < old.rows) =>
                         \A c \in Vacated(f, n, start.w.cursorCol, old.cols) :
                             At(currentBuffer(widget), start.w.cursorRow, c)
                                 = makeCellForCurrentAttr(start.w)
                  /\ [ScreenModel(widget) EXCEPT !.mainScreen = start.w.mainScreen,
                                                 !.alternateScreen = start.w.alternateScreen]
                         = ScreenModel(start.w)
                  /\ IF widget.inAlternateScreen
                     THEN widget.mainScreen = start.w.mainScreen
                     ELSE widget.alternateScreen = start.w.alternateScreen
    /\ alive => \A n \in {0 - 1, 0} :
           /\ insertChars(widget, n) = widget
           /\ deleteChars(widget, n) = widget
           /\ eraseChars(widget, n) = widget

\* A blank cell with the default attributes (foreground 7, background 0, no style).
DefaultBlank == [ch |-> 32, fg |-> 7, bg |-> 0, style |-> 0]

\* C33: a full reset (ESC c) from any state leaves the default attributes
\* (foreground 7, background 0, no style), the cursor at (0, 0), the
\* scrolling region [0, rows - 1], the primary screen current, an empty
\* scrollback, every cell of both buffers blank with the default attributes,
\* and the decoder in Ground with empty text, parameter and OSC buffers.
C33_FullReset ==
    Fed(<<ESC, 99>>) =>
        /\ widget.currentFg = 7 /\ widget.currentBg = 0 /\ widget.currentStyle = 0
        /\ widget.cursorRow = 0 /\ widget.cursorCol = 0
        /\ widget.scrollRegionTop = 0
        /\ widget.scrollRegionBottom = currentBuffer(widget).rows - 1
        /\ ~widget.inAlternateScreen
        /\ widget.scrollbackBuffer = << >>
        /\ \A i \in 1..Len(widget.mainScreen.cells) : widget.mainScreen.cells[i] = DefaultBlank
        /\ \A i \in 1..Len(widget.alternateScreen.cells) :
               widget.alternateScreen.cells[i] = DefaultBlank
        /\ parser.state = "Ground"
        /\ parser.textBuffer = << >> /\ parser.paramBuffer = << >>
        /\ parser.oscString = << >>

\* C34: an OSC string accumulates every byte after ESC ] until BEL or ESC
\* followed by backslash, and only those end it; the string is then split once
\* at its first ';', codes 0 and 2 set the window title to everything after
\* that ';' (later ';' kept), the OSC buffer is emptied and the decoder is
\* back in Ground.
C34_OscTitle ==
    \A k \in OscCases :
        (op = FeedOp(k.data) /\ pending = << >> /\ start.p.state = "Ground") =>
            /\ alive
            /\ widget.title = k.title
            /\ parser.oscString = << >>
            /\ parser.state = "Ground"

\* C35: grid accesses are always in bounds: after any feeds and resizes no
\* mutator touches memory past the cell vector or a cell of a row other than
\* the one it works on, in particular eraseInLine(1) and insertChars with
\* the cursor left past the last column by putChar, and any operation after
\* the grid shrinks.
C35_GridInBounds ==
    /\ ~widget.oob
    /\ \A data \in {EraseLine(<<49>>), ParamOne(64)} :
           (Fed(data) /\ start.p.state = "Ground") =>
               \A i \in ChangedCells(start.w, widget) :
                   CellRow(currentBuffer(start.w), i) = start.w.cursorRow

\* C36: every row held in scrollback has exactly as many cells as the current
\* buffer has columns, in every reachable state, also after setTerminalSize
\* has changed the column count, so that each row can be read at columns
\* 0..cols-1.
C36_ScrollbackWidth ==
    \A i \in 1..Len(widget.scrollbackBuffer) :
        Len(widget.scrollbackBuffer[i]) = currentBuffer(widget).cols

\* C37: the child is waited on at most once per session: once readFromPty has
\* reaped it at end of file, no later waitpid is issued for that pid, neither
\* by a later read nor by the destructor.
C37_WaitedOnce == pty.waits <= 1

\* C38: whenever a PTY is attached, the window size last given to the kernel
\* equals the rows and columns of the model: each change of the size with a
\* PTY attached issues exactly one TIOCSWINSZ with the new size, an unchanged
\* size issues none, and a size set before the PTY was attached is handed
\* over when it is attached.
C38_KernelSize ==
    /\ pty.ioctls = pty.changes
    /\ (pty.widgetFD /\ pty.pc # "gone") =>
           pty.winsize = <<widget.mainScreen.rows, widget.mainScreen.cols>>

\* C39: the current foreground and background colour indices, and those of
\* every cell of both buffers and of scrollback, lie in 0..255 after any
\* feeds, CSI 38;5;n m and 48;5;n m with any decimal n included.
C39_ColourRange ==
    /\ widget.currentFg \in 0..255 /\ widget.currentBg \in 0..255
    /\ \A i \in 1..Len(widget.mainScreen.cells) :
           widget.mainScreen.cells[i].fg \in 0..255 /\ widget.mainScreen.cells[i].bg \in 0..255
    /\ \A i \in 1..Len(widget.alternateScreen.cells) :
           /\ widget.alternateScreen.cells[i].fg \in 0..255
           /\ widget.alternateScreen.cells[i].bg \in 0..255
    /\ \A r \in 1..Len(widget.scrollbackBuffer) : \A c \in 1..Len(widget.scrollbackBuffer[r]) :
           /\ widget.scrollbackBuffer[r][c].fg \in 0..255
           /\ widget.scrollbackBuffer[r][c].bg \in 0..255

\* The cells of a buffer that are not blanks of any attributes or fresh cells.
Inked(buf) == {i \in 1..Len(buf.cells) : buf.cells[i].ch # 32 /\ buf.cells[i].ch # 0}

C40_WitnessPrimary ==
    /\ alive /\ op.kind = "scrollUp"
    /\ ~start.w.inAlternateScreen
    /\ Inked(start.w.alternateScreen) # {}
    /\ ChangedCells(start.w, widget) # {}
    /\ widget.alternateScreen = start.w.alternateScreen

====
